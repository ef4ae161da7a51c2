------------------------------- MODULE Layout -------------------------------
(***************************************************************************)
(* The layout a radio's server publishes (cat-layout): a tree of splits    *)
(* with panels at the leaves, resolved against an area, and the terminal   *)
(* console that draws it (cat-ui-ratatui draw and draw_layout).  The       *)
(* operator resizes the terminal and changes tabs, the radio keys.         *)
(***************************************************************************)
EXTENDS Integers, SequencesExt, FiniteSetsExt

CONSTANTS
    Trees,       \* layouts a server may publish
    Densities,   \* rows a renderer may need for its meter rail
    Widths, Heights   \* the sizes of the terminal

VARIABLES
    tree,        \* CapabilitiesWire.layout
    density,     \* what natural answers for the meter rail
    screen,      \* the terminal's area
    placements,  \* where resolve_with put the panels for this draw
    tab,         \* ConsoleView.tab: "Spectrum" or another
    tx           \* RadioDisplay.tx

layoutVars == <<tree, density, screen, placements, tab, tx>>

Area(x, y, w, h) == [x |-> x, y |-> y, width |-> w, height |-> h]
Fixed(n) == [is |-> "Fixed", n |-> n]
Fill(n) == [is |-> "Fill", n |-> n]
Natural == [is |-> "Natural", n |-> 0]
Panel(kind) == [is |-> "Panel", kind |-> kind]
Split(direction, children) ==
    [is |-> "Split", direction |-> direction, children |-> children]

----------------------------------------------------------------------------
(* solve *)

Wanted(size) == IF size.is \in {"Fixed", "Min"} THEN size.n ELSE 0

\* First pass, in order: a fixed size or a minimum is met whole or not at all.
Given(sizes, total) ==
    LET left[i \in 0 .. Len(sizes)] ==
            IF i = 0 THEN total
            ELSE CHOOSE rest \in {IF Wanted(sizes[i]) <= before
                                  THEN before - Wanted(sizes[i])
                                  ELSE before : before \in {left[i - 1]}} : TRUE
    IN  [i \in DOMAIN sizes |-> left[i - 1] - left[i]]

Weight(size) ==
    CASE size.is = "Fill" -> size.n
      [] size.is = "Min" -> 1
      [] OTHER -> 0

\* (mutant) What the divisions lose is handed to nobody.
ShareRounded(sizes, left, i) ==
    LET weight == FoldLeft(LAMBDA sum, size : sum + Weight(size), 0, sizes)
    IN  IF weight = 0 THEN 0 ELSE (left * Weight(sizes[i])) \div weight

\* Second pass: what is left is shared by weight, and the last flexible child
\* takes what the divisions lose.
Share(sizes, left, i) ==
    LET weight == FoldLeft(LAMBDA sum, size : sum + Weight(size), 0, sizes)
        part(j) == (left * Weight(sizes[j])) \div weight
        flexible == {j \in DOMAIN sizes : Weight(sizes[j]) > 0}
        lost == left - FoldLeft(+, 0, [j \in DOMAIN sizes |-> part(j)])
    IN  CASE weight = 0 -> 0
          [] i = Max(flexible) -> part(i) + lost
          [] OTHER -> part(i)

Solve(sizes, total) ==
    LET given == Given(sizes, total)
        left == total - FoldLeft(+, 0, given)
    IN  [i \in DOMAIN sizes |-> given[i] + Share(sizes, left, i)]

----------------------------------------------------------------------------
(* place *)

\* A Natural size is what the renderer needs for the panel; a split has no
\* panel to ask about and takes a share.
Concrete(child, direction) ==
    CASE child.size # Natural -> child.size
      [] child.node.is = "Split" -> Fill(1)
      [] child.node.kind = "MeterRail" /\ direction = "Rows" -> Fixed(density)
      [] OTHER -> Fixed(1)

Sizes(node) == [i \in DOMAIN node.children |-> Concrete(node.children[i], node.direction)]

Spans(node, area) ==
    Solve(Sizes(node), IF node.direction = "Rows" THEN area.height ELSE area.width)

\* The part of a split's area that its i-th child gets.
ChildArea(node, area, spans, i) ==
    LET offset == FoldLeft(+, 0, SubSeq(spans, 1, i - 1))
    IN  IF node.direction = "Rows"
        THEN Area(area.x, area.y + offset, area.width, spans[i])
        ELSE Area(area.x + offset, area.y, spans[i], area.height)

Empty(area) == area.width = 0 \/ area.height = 0

RECURSIVE Place(_, _)
Place(node, area) ==
    CASE Empty(area) -> <<>>
      [] node.is = "Panel" -> << [kind |-> node.kind, area |-> area] >>
      [] OTHER -> LET spans == Spans(node, area)
                  IN  FlattenSeq([i \in DOMAIN node.children |->
                          Place(node.children[i].node, ChildArea(node, area, spans, i))])

----------------------------------------------------------------------------
(* draw: the banner of a keyed radio takes a row off the top, and the      *)
(* layout has the rest                                                     *)

Below(area, keyed) ==
    IF keyed /\ area.height >= 3
    THEN Area(area.x, area.y + 1, area.width, area.height - 1)
    ELSE area

Resolve(area, keyed) == Place(tree, Below(area, keyed))
Placed(kind) == {i \in DOMAIN placements : placements[i].kind = kind}

\* The smallest area containing both.
Union(a, b) ==
    LET x == Min({a.x, b.x})
        y == Min({a.y, b.y})
    IN  Area(x, y, Max({a.x + a.width, b.x + b.width}) - x,
                   Max({a.y + a.height, b.y + b.height}) - y)

\* With the SPECTRUM tab open a layout that places both draws the spectrum
\* once, over its own panel and the workspace's.
Merges == tab = "Spectrum" /\ Placed("Spectrum") # {} /\ Placed("Workspace") # {}
First(kind) == placements[Min(Placed(kind))].area
Merged == Union(First("Spectrum"), First("Workspace"))

\* draw_layout: where each panel is painted, in order.
Painted(p) ==
    CASE p.kind = "Spectrum" /\ Merges -> <<Merged>>
      [] p.kind = "Workspace" /\ Merges -> <<>>
      [] p.kind = "Blank" -> <<>>
      [] OTHER -> <<p.area>>

Drawn == FlattenSeq([i \in DOMAIN placements |-> Painted(placements[i])])

----------------------------------------------------------------------------
LayoutInit ==
    /\ tree \in Trees /\ density \in Densities
    /\ screen = Area(0, 0, 0, 0) /\ placements = <<>>
    /\ tab = "Spectrum" /\ tx = FALSE

Resize ==
    /\ \E w \in Widths, h \in Heights : screen' = Area(0, 0, w, h)
    /\ placements' = Resolve(screen', tx)
    /\ UNCHANGED <<tree, density, tab, tx>>

SelectTab ==
    /\ tab' \in {"Spectrum", "Source"}
    /\ UNCHANGED <<tree, density, screen, placements, tx>>

Keyed ==
    /\ tx' = ~tx
    /\ placements' = Resolve(screen, tx')
    /\ UNCHANGED <<tree, density, screen, tab>>

LayoutNext == Resize \/ SelectTab \/ Keyed

LayoutSpec == LayoutInit /\ [][LayoutNext]_layoutVars

----------------------------------------------------------------------------
Cells(area) == {<<x, y>> : x \in area.x .. area.x + area.width - 1,
                           y \in area.y .. area.y + area.height - 1}

RECURSIVE Flexible(_)
Flexible(node) ==
    node.is = "Split" =>
        /\ \E i \in DOMAIN node.children : Weight(Sizes(node)[i]) > 0
        /\ \A i \in DOMAIN node.children : Flexible(node.children[i].node)

\* The spectrum and the workspace make one rectangle.
Adjoin ==
    Cells(Merged) = Cells(First("Spectrum")) \cup Cells(First("Workspace"))

(* Whatever layout a server publishes and however small the terminal, no   *)
(* cell is drawn by two panels and none lies outside the screen, and when  *)
(* every split has a child that takes the remainder no cell is left out    *)
(* (solve: "so the layout fills its area exactly rather than leaving a     *)
(* seam"); the spectrum drawn over two panels keeps this when the two      *)
(* adjoin (union: "a merge rather than an approximation").                 *)
PanelsTile ==
    (Merges => Adjoin) =>
        /\ \A i, j \in DOMAIN Drawn : i # j => Cells(Drawn[i]) \cap Cells(Drawn[j]) = {}
        /\ \A i \in DOMAIN Drawn : Cells(Drawn[i]) \subseteq Cells(Below(screen, tx))
        /\ Flexible(tree) =>
              UNION {Cells(Drawn[i]) : i \in DOMAIN Drawn} = Cells(Below(screen, tx))

(* A child that asked for a minimum gets that much or nothing (solve: "a   *)
(* child that cannot have its stated minimum gets **nothing** rather than  *)
(* part of it").                                                           *)
MinimumOrNothing ==
    LET spans == Spans(tree, Below(screen, tx))
    IN  \A i \in DOMAIN spans :
            LET size == Sizes(tree)[i]
            IN  size.is \in {"Fixed", "Min"} => (spans[i] = 0 \/ spans[i] >= size.n)
=============================================================================
