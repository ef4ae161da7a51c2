------------------------------ MODULE Callsign ------------------------------
(***************************************************************************)
(* Callsigns of the practice scenarios (cat-morse/src/scenario/callsign.rs)*)
(* over the real entity table: where a call is from (home_of), and how a   *)
(* station's call is drawn so that it comes from where the station is      *)
(* (call_from, designator, station_call).                                  *)
(*                                                                         *)
(* A call is the sequence of its "/"-separated pieces.  A home is a DXCC   *)
(* entity and, where the entity has call areas, one of them.  The 64 draws *)
(* of call_from are taken to find an acceptable draw when there is one,    *)
(* and to end in a near miss when there is none.                           *)
(*                                                                         *)
(* The entity table is world.rs's: for every DXCC entity the prefixes a    *)
(* call is recognised by, the shapes of call it issues, its tag where it   *)
(* shares another entity's block, and how active it is; and the call areas *)
(* of the entities that have them.  Names, zones, towns and draw weights   *)
(* are left out: nothing here tells them apart, and every weight is        *)
(* positive.                                                               *)
(***************************************************************************)
EXTENDS Integers, Sequences, FiniteSets, FiniteSetsExt

CONSTANTS
    FirstLetters,   \* first suffix letters drawn (a sample of SUFFIX_FIRST)
    OtherLetters,   \* further suffix letters drawn (a sample of LETTERS)
    Countries,      \* the entities stations are placed in
    Visitors        \* entities visiting operators are licensed in

VARIABLES
    home,      \* where the station is
    call,      \* its call as sent, in pieces; <<>> before it is drawn
    licence    \* the call its operator is licensed under

vars == <<home, call, licence>>

-----------------------------------------------------------------------------
(* The entity table (cat-morse/src/scenario/world.rs).                     *)

\* Activity: how often an entity is drawn; only the classes matter here.
Common   == "common"
Regular  == "regular"
Uncommon == "uncommon"
Rare     == "rare"

\* DigitRule: where a generated call's digit comes from.
InPrefix   == [rule |-> "prefix", digits |-> {}]
OneOf(ds)  == [rule |-> "one", digits |-> ds]
FromRegion == [rule |-> "region", digits |-> {}]

\* One shape of call: prefixes, digit rule, fewest and most suffix letters.
F(prefixes, digit, lo, hi) == [prefixes |-> prefixes, digit |-> digit, lo |-> lo, hi |-> hi]

\* A call area: its digit and the prefixes its calls use (none: any).
R(digit, prefixes) == [digit |-> digit, prefixes |-> prefixes]
Numbered(ds) == {R(d, {}) : d \in ds}
Lettered(ds, prefixes) == {R(d, prefixes) : d \in ds}

\* An entity; a tag of "" is an entity without one.
E(dxcc, activity, prefixes, formats, tag) ==
    [dxcc |-> dxcc, activity |-> activity, prefixes |-> prefixes, formats |-> formats, tag |-> tag]

\* Prefixes that name their entity only with a suffix of exactly this length.
EXACT_SUFFIX == [p \in {"KG4"} |-> 2]

USA  == 291
D1_9 == 1..9
D0_9 == 0..9

US_1 == {
    "K", "N", "W" }

US_2 == {
    "KA", "KB", "KC", "KD", "KE", "KF", "KG", "KI", "KJ", "KK", "KM", "KN", "KO", "KQ", "KR", "KS",
    "KT", "KU", "KV", "KW", "KX", "KY", "KZ", "NA", "NB", "NC", "ND", "NE", "NF", "NG", "NI", "NJ",
    "NK", "NM", "NN", "NO", "NQ", "NR", "NS", "NT", "NU", "NV", "NW", "NX", "NY", "NZ", "WA", "WB",
    "WC", "WD", "WE", "WF", "WG", "WI", "WJ", "WK", "WM", "WN", "WO", "WQ", "WR", "WS", "WT", "WU",
    "WV", "WW", "WX", "WY", "WZ", "AA", "AB", "AC", "AD", "AE", "AF", "AG", "AI", "AJ", "AK" }

US_2_KW == {
    "KA", "KB", "KC", "KD", "KE", "KF", "KG", "KI", "KJ", "KK", "KM", "KN", "KO", "KQ", "KR", "KS",
    "KT", "KU", "KV", "KW", "KX", "KY", "KZ", "WA", "WB", "WC", "WD", "WE", "WF", "WG", "WI", "WJ",
    "WK", "WM", "WN", "WO", "WQ", "WR", "WS", "WT", "WU", "WV", "WW", "WX", "WY", "WZ" }

US_MATCH == {
    "K", "N", "W", "AA", "AB", "AC", "AD", "AE", "AF", "AG", "AI", "AJ", "AK" }

US_FORMATS == {
    F(US_1, FromRegion, 2, 2), F(US_2, FromRegion, 1, 1), F(US_2, FromRegion, 2, 2),
    F(US_1, FromRegion, 3, 3), F(US_2_KW, FromRegion, 3, 3) }

US_REGIONS == Numbered(D0_9)

UnitedStates == E(USA, Common, US_MATCH, US_FORMATS, "")

Europe1 == {
    E(246, Rare, {"1A"}, {F({"1A0"}, InPrefix, 1, 2)}, ""),
    E(260, Uncommon, {"3A"}, {F({"3A2"}, InPrefix, 2, 3)}, ""),
    E(514, Uncommon, {"4O"}, {F({"4O"}, OneOf({3, 4, 6, 7}), 2, 3)}, ""),
    E(117, Uncommon, {"4U1ITU"}, {F({"4U1ITU"}, InPrefix, 0, 0)}, ""),
    E(497, Regular, {"9A"}, {F({"9A"}, OneOf(D1_9), 2, 3)}, ""),
    E(257, Uncommon, {"9H"}, {F({"9H"}, OneOf({1, 5}), 2, 3)}, ""),
    E(203, Uncommon, {"C3"}, {F({"C3"}, OneOf({1, 7}), 2, 3)}, ""),
    E(149, Uncommon, {"CU"}, {F({"CU"}, OneOf(D1_9), 2, 3)}, ""),
    E(272, Regular, {"CT", "CQ", "CR", "CS"}, {F({"CT", "CS"}, OneOf({1, 2, 7}), 2, 3)}, ""),
    E(230, Common, {"DA", "DB", "DC", "DD", "DE", "DF", "DG", "DH", "DI", "DJ", "DK", "DL", "DM", "DN",
        "DO", "DP", "DQ", "DR"}, {F({"DL", "DK", "DJ", "DF", "DH", "DG", "DO", "DB", "DC", "DD", "DM"},
        OneOf(D1_9), 2, 3)}, ""),
    E(501, Regular, {"E7", "T9"}, {F({"E7"}, OneOf(D1_9), 2, 3)}, ""),
    E(281, Common, {"EA", "EB", "EC", "ED", "EE", "EF", "EG", "EH", "AM", "AN", "AO"}, {F({"EA", "EB", "EC",
        "ED"}, OneOf({1, 2, 3, 4, 5, 7}), 2, 3)}, ""),
    E(21, Regular, {"EA6", "EB6", "EC6", "ED6", "EE6", "EF6", "EG6", "EH6", "AM6", "AN6", "AO6"}, {F({"EA6",
        "EB6", "EC6", "ED6"}, InPrefix, 2, 3)}, ""),
    E(245, Regular, {"EI", "EJ"}, {F({"EI", "EJ"}, OneOf({2, 3, 4, 5, 6, 7, 8, 9}), 2, 3)}, ""),
    E(179, Regular, {"ER"}, {F({"ER"}, OneOf({1, 2, 3, 4, 5}), 2, 3)}, ""),
    E(52, Regular, {"ES"}, {F({"ES"}, OneOf({1, 2, 3, 4, 5, 6, 7, 8}), 2, 3)}, ""),
    E(27, Regular, {"EU", "EV", "EW"}, {F({"EU", "EW"}, OneOf({1, 2, 3, 4, 5, 6, 7, 8}), 2, 3)}, ""),
    E(227, Common, {"F"}, {F({"F"}, OneOf(D1_9), 2, 3)}, ""),
    E(223, Common, {"G", "M", "2E"}, {F({"G"}, OneOf({0, 1, 2, 3, 4, 5, 6, 7, 8}), 2, 3), F({"M"}, OneOf({0,
        1, 3, 5, 6, 7}), 3, 3), F({"2E"}, OneOf({0, 1}), 3, 3)}, ""),
    E(114, Uncommon, {"GD", "MD", "2D", "GT", "MT"}, {F({"GD", "MD"}, OneOf({0, 1, 2, 3, 4, 5, 6, 7, 8}), 3,
        3)}, "") }

Europe2 == {
    E(265, Regular, {"GI", "MI", "2I", "GN", "MN"}, {F({"GI", "MI"}, OneOf({0, 1, 2, 3, 4, 5, 6, 7, 8}), 3,
        3)}, ""),
    E(122, Uncommon, {"GJ", "MJ", "2J", "GH", "MH"}, {F({"GJ", "MJ"}, OneOf({0, 1, 2, 3, 4, 5, 6, 7, 8}), 3,
        3)}, ""),
    E(279, Regular, {"GM", "MM", "2M", "GS", "MS"}, {F({"GM", "MM"}, OneOf({0, 1, 2, 3, 4, 5, 6, 7, 8}), 3,
        3)}, ""),
    E(106, Uncommon, {"GU", "MU", "2U", "GP", "MP"}, {F({"GU", "MU"}, OneOf({0, 1, 2, 3, 4, 5, 6, 7, 8}), 3,
        3)}, ""),
    E(294, Regular, {"GW", "MW", "2W", "GC", "MC"}, {F({"GW", "MW"}, OneOf({0, 1, 2, 3, 4, 5, 6, 7, 8}), 3,
        3)}, ""),
    E(239, Regular, {"HA", "HG"}, {F({"HA", "HG"}, OneOf(D1_9), 2, 3)}, ""),
    E(287, Regular, {"HB", "HE"}, {F({"HB9"}, InPrefix, 2, 3)}, ""),
    E(251, Uncommon, {"HB0", "HE0"}, {F({"HB0"}, InPrefix, 2, 3)}, ""),
    E(295, Uncommon, {"HV"}, {F({"HV"}, OneOf({0}), 1, 2)}, ""),
    E(248, Common, {"I"}, {F({"I", "IK", "IZ", "IW", "IU"}, OneOf(D1_9), 2, 3)}, ""),
    E(225, Regular, {"IS0", "IM0"}, {F({"IS0", "IM0"}, InPrefix, 2, 3)}, ""),
    E(259, Uncommon, {"JW"}, {F({"JW"}, OneOf(D0_9), 2, 3)}, ""),
    E(118, Uncommon, {"JX"}, {F({"JX"}, OneOf(D0_9), 2, 3)}, ""),
    E(266, Regular, {"LA", "LB", "LC", "LD", "LE", "LF", "LG", "LH", "LI", "LJ", "LK", "LL", "LM", "LN"},
        {F({"LA", "LB"}, OneOf(D1_9), 2, 3)}, ""),
    E(254, Uncommon, {"LX"}, {F({"LX"}, OneOf(D1_9), 2, 3)}, ""),
    E(146, Regular, {"LY"}, {F({"LY"}, OneOf({1, 2, 3, 4, 5}), 2, 3)}, ""),
    E(212, Regular, {"LZ"}, {F({"LZ"}, OneOf(D1_9), 2, 3)}, ""),
    E(206, Regular, {"OE", "4U1VIC"}, {F({"OE"}, OneOf(D1_9), 2, 3)}, ""),
    E(224, Regular, {"OH", "OF", "OG", "OI", "OJ"}, {F({"OH"}, OneOf(D1_9), 2, 3)}, ""),
    E(5, Uncommon, {"OH0", "OF0", "OG0", "OI0"}, {F({"OH0"}, InPrefix, 2, 3)}, ""),
    E(167, Uncommon, {"OJ0"}, {F({"OJ0"}, InPrefix, 2, 3)}, "") }

Europe3 == {
    E(503, Common, {"OK", "OL"}, {F({"OK", "OL"}, OneOf(D1_9), 2, 3)}, ""),
    E(504, Regular, {"OM"}, {F({"OM"}, OneOf(D1_9), 2, 3)}, ""),
    E(209, Regular, {"ON", "OO", "OP", "OQ", "OR", "OS", "OT"}, {F({"ON", "OO", "OP", "OT"}, OneOf(D1_9), 2,
        3)}, ""),
    E(222, Uncommon, {"OY"}, {F({"OY"}, OneOf(D1_9), 2, 3)}, ""),
    E(221, Regular, {"OZ", "OU", "OV", "OW", "5P", "5Q"}, {F({"OZ", "OU"}, OneOf(D1_9), 2, 3)}, ""),
    E(263, Common, {"PA", "PB", "PC", "PD", "PE", "PF", "PG", "PH", "PI"}, {F({"PA", "PD", "PE", "PH"},
        OneOf(D1_9), 2, 3)}, ""),
    E(61, Rare, {"R1FJ", "RI1FJ", "UA1FJ"}, {F({"R1FJ"}, InPrefix, 1, 2)}, ""),
    E(499, Regular, {"S5"}, {F({"S5"}, OneOf(D1_9), 2, 3)}, ""),
    E(284, Regular, {"SA", "SB", "SC", "SD", "SE", "SF", "SG", "SH", "SI", "SJ", "SK", "SL", "SM", "7S",
        "8S"}, {F({"SM", "SA", "SK"}, OneOf({0, 1, 2, 3, 4, 5, 6, 7}), 2, 3)}, ""),
    E(269, Common, {"SN", "SO", "SP", "SQ", "SR", "3Z", "HF"}, {F({"SP", "SQ", "SO"}, OneOf(D1_9), 2, 3)}, ""),
    E(236, Regular, {"SV", "SW", "SX", "SY", "SZ", "J4"}, {F({"SV", "SW", "SZ"}, OneOf({1, 2, 3, 4, 6, 7,
        8}), 2, 3)}, ""),
    E(180, Rare, {"SV2"}, {F({"SV2"}, InPrefix, 3, 3)}, "A"),
    E(45, Uncommon, {"SV5", "SW5", "SX5", "SY5", "SZ5", "J45"}, {F({"SV5", "SX5"}, InPrefix, 2, 3)}, ""),
    E(40, Regular, {"SV9", "SW9", "SX9", "SY9", "SZ9", "J49"}, {F({"SV9", "SW9"}, InPrefix, 2, 3)}, ""),
    E(278, Uncommon, {"T7"}, {F({"T7"}, OneOf({0}), 1, 2)}, ""),
    E(390, Regular, {"TA", "TB", "TC", "YM"}, {F({"TA", "TC", "YM"}, OneOf(D0_9), 2, 3)}, ""),
    E(242, Uncommon, {"TF"}, {F({"TF"}, OneOf({1, 2, 3, 4, 5, 6, 7, 8}), 2, 3)}, ""),
    E(214, Uncommon, {"TK"}, {F({"TK"}, OneOf(D0_9), 2, 3)}, "") }

Europe4 == {
    E(54, Common, {"R1", "R3", "R4", "R6", "R7", "RA1", "RA3", "RA4", "RA6", "RA7", "RB1", "RB3", "RB4",
        "RB6", "RB7", "RC1", "RC3", "RC4", "RC6", "RC7", "RD1", "RD3", "RD4", "RD6", "RD7", "RE1", "RE3",
        "RE4", "RE6", "RE7", "RF1", "RF3", "RF4", "RF6", "RF7", "RG1", "RG3", "RG4", "RG6", "RG7", "RH1",
        "RH3", "RH4", "RH6", "RH7", "RI1", "RI3", "RI4", "RI6", "RI7", "RJ1", "RJ3", "RJ4", "RJ6", "RJ7",
        "RK1", "RK3", "RK4", "RK6", "RK7", "RL1", "RL3", "RL4", "RL6", "RL7", "RM1", "RM3", "RM4", "RM6",
        "RM7", "RN1", "RN3", "RN4", "RN6", "RN7", "RO1", "RO3", "RO4", "RO6", "RO7", "RP1", "RP3", "RP4",
        "RP6", "RP7", "RQ1", "RQ3", "RQ4", "RQ6", "RQ7", "RR1", "RR3", "RR4", "RR6", "RR7", "RS1", "RS3",
        "RS4", "RS6", "RS7", "RT1", "RT3", "RT4", "RT6", "RT7", "RU1", "RU3", "RU4", "RU6", "RU7", "RV1",
        "RV3", "RV4", "RV6", "RV7", "RW1", "RW3", "RW4", "RW6", "RW7", "RX1", "RX3", "RX4", "RX6", "RX7",
        "RY1", "RY3", "RY4", "RY6", "RY7", "RZ1", "RZ3", "RZ4", "RZ6", "RZ7", "UA1", "UA3", "UA4", "UA6",
        "UA7", "UB1", "UB3", "UB4", "UB6", "UB7", "UC1", "UC3", "UC4", "UC6", "UC7", "UD1", "UD3", "UD4",
        "UD6", "UD7", "UE1", "UE3", "UE4", "UE6", "UE7", "UF1", "UF3", "UF4", "UF6", "UF7", "UG1", "UG3",
        "UG4", "UG6", "UG7", "UH1", "UH3", "UH4", "UH6", "UH7", "UI1", "UI3", "UI4", "UI6", "UI7"},
        {F({"UA", "RA", "RW", "RN", "RV", "RU", "RX", "RZ", "R", "UB"}, FromRegion, 2, 3)}, ""),
    E(126, Regular, {"R2", "RA2", "RB2", "RC2", "RD2", "RE2", "RF2", "RG2", "RH2", "RI2", "RJ2", "RK2",
        "RL2", "RM2", "RN2", "RO2", "RP2", "RQ2", "RR2", "RS2", "RT2", "RU2", "RV2", "RW2", "RX2", "RY2",
        "RZ2", "UA2", "UB2", "UC2", "UD2", "UE2", "UF2", "UG2", "UH2", "UI2"}, {F({"UA", "RA", "RW", "RN",
        "RV", "RU", "RX", "R", "UB"}, OneOf({2}), 2, 3)}, ""),
    E(288, Common, {"UR", "US", "UT", "UU", "UV", "UW", "UX", "UY", "UZ", "EM", "EN", "EO"}, {F({"UR", "UT",
        "UX", "US", "UY", "UZ", "UW", "UV", "EM", "EO"}, OneOf(D0_9), 2, 3)}, ""),
    E(145, Regular, {"YL"}, {F({"YL"}, OneOf({1, 2, 3}), 2, 3)}, ""),
    E(275, Regular, {"YO", "YP", "YQ", "YR"}, {F({"YO"}, OneOf({2, 3, 4, 5, 6, 7, 8, 9}), 2, 3)}, ""),
    E(296, Regular, {"YT", "YU"}, {F({"YT", "YU"}, OneOf(D1_9), 2, 3)}, ""),
    E(502, Uncommon, {"Z3"}, {F({"Z3"}, OneOf(D0_9), 2, 3)}, ""),
    E(522, Uncommon, {"Z6"}, {F({"Z6"}, OneOf(D0_9), 2, 3)}, ""),
    E(7, Uncommon, {"ZA"}, {F({"ZA"}, OneOf({1}), 2, 3)}, ""),
    E(233, Uncommon, {"ZB2", "ZG2"}, {F({"ZB2"}, InPrefix, 2, 3)}, "") }

NorthAmerica1 == {
    E(1, Common, {"VE", "VA", "VO", "VY", "VB", "VC", "VD", "VG", "VX", "XJ", "XK", "XL", "XM", "XN", "XO",
        "CF", "CG", "CH", "CI", "CJ", "CK", "CY"}, {F({"VE", "VA"}, FromRegion, 2, 3)}, ""),
    E(211, Rare, {"CY0"}, {F({"CY0"}, InPrefix, 2, 3)}, ""),
    E(252, Rare, {"CY9"}, {F({"CY9"}, InPrefix, 2, 3)}, ""),
    E(6, Regular, {"KL", "AL", "NL", "WL"}, {F({"KL", "AL", "NL", "WL"}, OneOf({7}), 2, 3)}, ""),
    E(182, Rare, {"KP1", "NP1", "WP1"}, {F({"KP1"}, InPrefix, 2, 3)}, ""),
    E(285, Uncommon, {"KP2", "NP2", "WP2"}, {F({"KP2", "NP2", "WP2"}, InPrefix, 2, 3)}, ""),
    E(202, Regular, {"KP3", "KP4", "NP3", "NP4", "WP3", "WP4"}, {F({"KP4", "NP4", "WP4", "KP3"}, InPrefix,
        2, 3)}, ""),
    E(43, Rare, {"KP5", "NP5", "WP5"}, {F({"KP5"}, InPrefix, 2, 3)}, ""),
    E(105, Rare, {"KG4"}, {F({"KG4"}, InPrefix, 2, 2)}, ""),
    E(289, Uncommon, {"4U1UN"}, {F({"4U1UN"}, InPrefix, 0, 0)}, ""),
    E(64, Uncommon, {"VP9"}, {F({"VP9"}, InPrefix, 2, 3)}, ""),
    E(277, Uncommon, {"FP"}, {F({"FP"}, OneOf({5, 8}), 2, 3)}, ""),
    E(237, Uncommon, {"OX", "XP"}, {F({"OX"}, OneOf({3, 5, 7}), 2, 3)}, ""),
    E(60, Uncommon, {"C6"}, {F({"C6"}, InPrefix, 3, 3)}, ""),
    E(70, Uncommon, {"CM", "CO", "CL", "T4"}, {F({"CO", "CM", "CL"}, OneOf(D1_9), 2, 3)}, ""),
    E(82, Uncommon, {"6Y"}, {F({"6Y"}, OneOf({5}), 2, 2)}, ""),
    E(78, Uncommon, {"HH", "4V"}, {F({"HH"}, OneOf({2}), 2, 3)}, ""),
    E(72, Uncommon, {"HI"}, {F({"HI"}, OneOf({3, 8}), 2, 3)}, ""),
    E(69, Uncommon, {"ZF"}, {F({"ZF"}, OneOf({1, 2}), 2, 3)}, "") }

NorthAmerica2 == {
    E(89, Uncommon, {"VP5"}, {F({"VP5"}, InPrefix, 2, 3)}, ""),
    E(94, Uncommon, {"V2"}, {F({"V2"}, OneOf({1, 5}), 2, 3)}, ""),
    E(249, Uncommon, {"V4"}, {F({"V4"}, OneOf({1}), 2, 3)}, ""),
    E(12, Uncommon, {"VP2E"}, {F({"VP2E"}, InPrefix, 1, 2)}, ""),
    E(96, Uncommon, {"VP2M"}, {F({"VP2M"}, InPrefix, 1, 2)}, ""),
    E(65, Uncommon, {"VP2V"}, {F({"VP2V"}, InPrefix, 1, 2)}, ""),
    E(79, Uncommon, {"FG"}, {F({"FG"}, OneOf({4, 5, 8}), 2, 3)}, ""),
    E(84, Uncommon, {"FM"}, {F({"FM"}, OneOf({5}), 2, 3)}, ""),
    E(516, Uncommon, {"FJ"}, {F({"FJ"}, OneOf({5}), 2, 3)}, ""),
    E(213, Uncommon, {"FS"}, {F({"FS"}, OneOf({4, 5}), 2, 3)}, ""),
    E(518, Uncommon, {"PJ7"}, {F({"PJ7"}, InPrefix, 2, 3)}, ""),
    E(519, Uncommon, {"PJ5", "PJ6"}, {F({"PJ5", "PJ6"}, InPrefix, 2, 3)}, ""),
    E(95, Uncommon, {"J7"}, {F({"J7"}, OneOf({3}), 2, 3)}, ""),
    E(97, Uncommon, {"J6"}, {F({"J6"}, OneOf({8}), 2, 3)}, ""),
    E(98, Uncommon, {"J8"}, {F({"J8"}, OneOf({8}), 2, 3)}, ""),
    E(62, Uncommon, {"8P"}, {F({"8P"}, OneOf({6}), 2, 3)}, ""),
    E(77, Uncommon, {"J3"}, {F({"J3"}, OneOf({4}), 2, 3)}, ""),
    E(17, Rare, {"YV0"}, {F({"YV0"}, InPrefix, 2, 3)}, ""),
    E(50, Regular, {"XA", "XB", "XC", "XD", "XE", "XF", "XG", "XH", "XI", "4A", "4B", "4C", "6D", "6E",
        "6F", "6G", "6H", "6I", "6J"}, {F({"XE", "XF"}, OneOf({1, 2, 3}), 2, 3)}, ""),
    E(204, Uncommon, {"XA4", "XB4", "XC4", "XD4", "XE4", "XF4", "4A4", "4B4"}, {F({"XF4"}, InPrefix, 2, 3)},
        ""),
    E(76, Uncommon, {"TG", "TD"}, {F({"TG"}, OneOf({9}), 2, 3)}, "") }

NorthAmerica3 == {
    E(66, Uncommon, {"V3"}, {F({"V3"}, OneOf({1}), 2, 3)}, ""),
    E(74, Uncommon, {"YS", "HU"}, {F({"YS"}, OneOf({1}), 2, 3)}, ""),
    E(80, Uncommon, {"HR", "HQ"}, {F({"HR"}, OneOf(D1_9), 2, 3)}, ""),
    E(86, Uncommon, {"YN", "H6", "H7", "HT"}, {F({"YN"}, OneOf(D1_9), 2, 3)}, ""),
    E(308, Uncommon, {"TI", "TE"}, {F({"TI"}, OneOf({2, 3, 4, 5, 8}), 2, 3)}, ""),
    E(37, Rare, {"TI9", "TE9"}, {F({"TI9"}, InPrefix, 2, 3)}, ""),
    E(88, Uncommon, {"HP", "HO", "3E", "3F", "H3", "H8", "H9"}, {F({"HP"}, OneOf(D1_9), 2, 3)}, ""),
    E(216, Uncommon, {"HK0", "5J0", "5K0"}, {F({"HK0"}, InPrefix, 2, 3)}, ""),
    E(36, Rare, {"FO"}, {F({"FO"}, OneOf({0}), 2, 3)}, "C") }

SouthAmerica1 == {
    E(100, Regular, {"LU", "LO", "LP", "LQ", "LR", "LS", "LT", "LV", "LW", "AY", "AZ", "L2", "L3", "L4",
        "L5", "L6", "L7", "L8", "L9"}, {F({"LU", "LW"}, OneOf(D1_9), 2, 3)}, ""),
    E(112, Regular, {"CE", "CA", "CB", "CC", "CD", "XQ", "XR", "3G"}, {F({"CE", "CA", "XQ"}, OneOf({1, 2, 3,
        4, 5, 6, 7, 8}), 2, 3)}, ""),
    E(47, Uncommon, {"CE0Y", "XR0Y", "CA0Y", "3G0Y"}, {F({"CE0Y", "XR0Y"}, InPrefix, 2, 3)}, ""),
    E(125, Rare, {"CE0X", "XR0X", "CA0X", "3G0X"}, {F({"CE0X", "XR0X"}, InPrefix, 2, 3)}, ""),
    E(217, Uncommon, {"CE0Z", "XR0Z", "CA0Z", "3G0Z"}, {F({"CE0Z", "XR0Z"}, InPrefix, 2, 3)}, ""),
    E(144, Regular, {"CX", "CV", "CW"}, {F({"CX"}, OneOf(D1_9), 2, 3)}, ""),
    E(132, Uncommon, {"ZP"}, {F({"ZP"}, OneOf({5, 6}), 2, 3)}, ""),
    E(104, Uncommon, {"CP"}, {F({"CP"}, OneOf({1, 2, 3, 4, 5, 6, 7}), 2, 3)}, ""),
    E(136, Uncommon, {"OA", "OB", "OC", "4T"}, {F({"OA"}, OneOf({4}), 2, 3)}, ""),
    E(120, Uncommon, {"HC", "HD"}, {F({"HC", "HD"}, OneOf({1, 2, 3, 4, 5, 6, 7}), 2, 3)}, ""),
    E(71, Uncommon, {"HC8", "HD8"}, {F({"HC8", "HD8"}, InPrefix, 2, 3)}, ""),
    E(116, Regular, {"HK", "HJ", "5J", "5K"}, {F({"HK", "HJ"}, OneOf({1, 2, 3, 4, 5, 6, 7}), 2, 3)}, ""),
    E(161, Rare, {"HK0"}, {F({"HK0"}, InPrefix, 2, 3)}, "M"),
    E(148, Regular, {"YV", "YW", "YX", "YY", "4M"}, {F({"YV"}, OneOf(D1_9), 2, 3)}, ""),
    E(129, Uncommon, {"8R"}, {F({"8R"}, OneOf({1}), 2, 3)}, ""),
    E(140, Uncommon, {"PZ"}, {F({"PZ"}, OneOf({1}), 2, 3)}, ""),
    E(63, Uncommon, {"FY"}, {F({"FY"}, OneOf({1, 5}), 2, 3)}, ""),
    E(108, Common, {"PP", "PQ", "PR", "PS", "PT", "PU", "PV", "PW", "PX", "PY", "ZV", "ZW", "ZX", "ZY",
        "ZZ"}, {F({"PY", "PU", "PP", "PT", "PR"}, FromRegion, 2, 3)}, ""),
    E(56, Uncommon, {"PY0F", "PP0F", "PU0F", "ZY0F"}, {F({"PY0F", "PP0F"}, InPrefix, 2, 3)}, "") }

SouthAmerica2 == {
    E(253, Rare, {"PY0S", "PW0S", "PP0S"}, {F({"PY0S", "PW0S"}, InPrefix, 2, 3)}, ""),
    E(273, Rare, {"PY0T", "PP0T", "PW0T"}, {F({"PY0T", "PP0T"}, InPrefix, 2, 3)}, ""),
    E(90, Uncommon, {"9Y", "9Z"}, {F({"9Y"}, OneOf({4}), 2, 3)}, ""),
    E(91, Uncommon, {"P4"}, {F({"P4"}, OneOf({0}), 2, 3)}, ""),
    E(517, Uncommon, {"PJ2"}, {F({"PJ2"}, InPrefix, 2, 3)}, ""),
    E(520, Uncommon, {"PJ4"}, {F({"PJ4"}, InPrefix, 2, 3)}, ""),
    E(141, Uncommon, {"VP8"}, {F({"VP8"}, InPrefix, 2, 3)}, ""),
    E(235, Rare, {"VP8"}, {F({"VP8"}, InPrefix, 2, 3)}, "G"),
    E(238, Rare, {"VP8"}, {F({"VP8"}, InPrefix, 2, 3)}, "O"),
    E(240, Rare, {"VP8"}, {F({"VP8"}, InPrefix, 2, 3)}, "S"),
    E(241, Uncommon, {"VP8"}, {F({"VP8"}, InPrefix, 2, 3)}, "H") }

Africa1 == {
    E(4, Rare, {"3B6", "3B7"}, {F({"3B6", "3B7"}, InPrefix, 2, 3)}, ""),
    E(165, Uncommon, {"3B8"}, {F({"3B8"}, InPrefix, 2, 3)}, ""),
    E(207, Uncommon, {"3B9"}, {F({"3B9"}, InPrefix, 2, 3)}, ""),
    E(49, Rare, {"3C"}, {F({"3C"}, OneOf(D1_9), 2, 3)}, ""),
    E(195, Rare, {"3C0"}, {F({"3C0"}, InPrefix, 2, 3)}, ""),
    E(468, Uncommon, {"3DA"}, {F({"3DA"}, OneOf({0}), 2, 2)}, ""),
    E(474, Uncommon, {"3V", "TS"}, {F({"3V"}, OneOf({8}), 2, 3)}, ""),
    E(107, Uncommon, {"3X"}, {F({"3X"}, OneOf(D1_9), 2, 3)}, ""),
    E(24, Rare, {"3Y"}, {F({"3Y"}, OneOf({0}), 2, 3)}, "B"),
    E(436, Rare, {"5A"}, {F({"5A"}, OneOf({1}), 2, 3)}, ""),
    E(470, Uncommon, {"5H", "5I"}, {F({"5H"}, OneOf({1, 3}), 2, 3)}, ""),
    E(450, Uncommon, {"5N", "5O"}, {F({"5N"}, OneOf(D0_9), 2, 3)}, ""),
    E(438, Uncommon, {"5R", "5S", "6X"}, {F({"5R"}, OneOf({8}), 2, 3)}, ""),
    E(444, Uncommon, {"5T"}, {F({"5T"}, OneOf({5}), 2, 3)}, ""),
    E(187, Uncommon, {"5U"}, {F({"5U"}, OneOf({5, 7}), 2, 3)}, ""),
    E(483, Uncommon, {"5V"}, {F({"5V"}, OneOf({7}), 2, 3)}, ""),
    E(286, Uncommon, {"5X"}, {F({"5X"}, OneOf({1}), 2, 3)}, ""),
    E(430, Uncommon, {"5Y", "5Z"}, {F({"5Z"}, OneOf({4}), 2, 3)}, ""),
    E(456, Uncommon, {"6V", "6W"}, {F({"6W"}, OneOf({1, 7}), 2, 3)}, ""),
    E(432, Uncommon, {"7P"}, {F({"7P"}, OneOf({8}), 2, 3)}, ""),
    E(440, Uncommon, {"7Q"}, {F({"7Q"}, OneOf({7}), 2, 3)}, "") }

Africa2 == {
    E(400, Uncommon, {"7R", "7T", "7U", "7V", "7W", "7X", "7Y"}, {F({"7X"}, OneOf({2, 4}), 2, 3)}, ""),
    E(424, Uncommon, {"9G"}, {F({"9G"}, OneOf({1, 5}), 2, 3)}, ""),
    E(482, Uncommon, {"9I", "9J"}, {F({"9J"}, OneOf({2}), 2, 3)}, ""),
    E(458, Uncommon, {"9L"}, {F({"9L"}, OneOf({1}), 2, 3)}, ""),
    E(414, Uncommon, {"9O", "9P", "9Q", "9R", "9S", "9T"}, {F({"9Q"}, OneOf(D1_9), 2, 3)}, ""),
    E(404, Rare, {"9U"}, {F({"9U"}, OneOf({5}), 2, 3)}, ""),
    E(454, Uncommon, {"9X"}, {F({"9X"}, OneOf({0, 5}), 2, 3)}, ""),
    E(402, Uncommon, {"A2", "8O"}, {F({"A2"}, OneOf({2, 5}), 2, 3)}, ""),
    E(422, Uncommon, {"C5"}, {F({"C5"}, InPrefix, 2, 3)}, ""),
    E(181, Uncommon, {"C9", "C8"}, {F({"C9", "C8"}, OneOf({1}), 2, 3)}, ""),
    E(446, Uncommon, {"CN", "5C", "5D", "5E", "5F", "5G"}, {F({"CN"}, OneOf({2, 8}), 2, 3)}, ""),
    E(256, Uncommon, {"CT3", "CQ3", "CR3", "CS3", "CT9", "CQ9", "CR9", "CS9"}, {F({"CT3", "CS3"}, InPrefix,
        2, 3)}, ""),
    E(401, Uncommon, {"D2", "D3"}, {F({"D2"}, OneOf({2}), 2, 3)}, ""),
    E(409, Uncommon, {"D4"}, {F({"D4"}, OneOf({4}), 2, 3)}, ""),
    E(411, Rare, {"D6"}, {F({"D6"}, OneOf({0}), 2, 3)}, ""),
    E(51, Rare, {"E3"}, {F({"E3"}, OneOf({0}), 2, 3)}, ""),
    E(29, Regular, {"EA8", "EB8", "EC8", "ED8", "EE8", "EF8", "EG8", "EH8", "AM8", "AN8", "AO8"}, {F({"EA8",
        "EB8", "EC8", "ED8"}, InPrefix, 2, 3)}, ""),
    E(32, Uncommon, {"EA9", "EB9", "EC9", "ED9", "EE9", "EF9", "EG9", "EH9", "AM9", "AN9", "AO9"},
        {F({"EA9", "EB9"}, InPrefix, 2, 3)}, ""),
    E(434, Uncommon, {"EL", "5L", "5M", "6Z", "A8", "D5"}, {F({"EL"}, OneOf({2}), 2, 3)}, ""),
    E(53, Uncommon, {"ET", "9E", "9F"}, {F({"ET"}, OneOf({3}), 2, 3)}, ""),
    E(169, Uncommon, {"FH"}, {F({"FH"}, OneOf({4}), 2, 3)}, "") }

Africa3 == {
    E(453, Uncommon, {"FR"}, {F({"FR"}, OneOf({4, 5}), 2, 3)}, ""),
    E(99, Rare, {"FT0G", "FT1G", "FT2G", "FT3G", "FT4G", "FT5G", "FT6G", "FT7G", "FT8G", "FT9G"},
        {F({"FT4G", "FT5G"}, InPrefix, 1, 2)}, ""),
    E(124, Rare, {"FT0J", "FT1J", "FT2J", "FT3J", "FT4J", "FT5J", "FT6J", "FT7J", "FT8J", "FT9J", "FT0E",
        "FT1E", "FT2E", "FT3E", "FT4E", "FT5E", "FT6E", "FT7E", "FT8E", "FT9E"}, {F({"FT4J", "FT5J",
        "FT4E"}, InPrefix, 1, 2)}, ""),
    E(276, Rare, {"FT0T", "FT1T", "FT2T", "FT3T", "FT4T", "FT5T", "FT6T", "FT7T", "FT8T", "FT9T"},
        {F({"FT4T", "FT5T"}, InPrefix, 1, 2)}, ""),
    E(41, Rare, {"FT0W", "FT1W", "FT2W", "FT3W", "FT4W", "FT5W", "FT6W", "FT7W", "FT8W", "FT9W"},
        {F({"FT4W", "FT5W"}, InPrefix, 1, 2)}, ""),
    E(131, Rare, {"FT0X", "FT1X", "FT2X", "FT3X", "FT4X", "FT5X", "FT6X", "FT7X", "FT8X", "FT9X"},
        {F({"FT4X", "FT5X"}, InPrefix, 1, 2)}, ""),
    E(10, Rare, {"FT0Z", "FT1Z", "FT2Z", "FT3Z", "FT4Z", "FT5Z", "FT6Z", "FT7Z", "FT8Z", "FT9Z"},
        {F({"FT4Z", "FT5Z"}, InPrefix, 1, 2)}, ""),
    E(382, Uncommon, {"J2"}, {F({"J2"}, OneOf({8}), 2, 3)}, ""),
    E(109, Uncommon, {"J5"}, {F({"J5"}, InPrefix, 2, 3)}, ""),
    E(302, Rare, {"S0"}, {F({"S0"}, OneOf({1}), 2, 3)}, ""),
    E(379, Uncommon, {"S7"}, {F({"S7"}, OneOf({9}), 2, 3)}, ""),
    E(219, Uncommon, {"S9"}, {F({"S9"}, OneOf({2}), 2, 3)}, ""),
    E(466, Uncommon, {"ST", "6T", "6U"}, {F({"ST"}, OneOf({2}), 2, 3)}, ""),
    E(478, Uncommon, {"SU", "SS", "6A", "6B"}, {F({"SU"}, OneOf(D1_9), 2, 3)}, ""),
    E(232, Rare, {"T5", "6O"}, {F({"T5"}, OneOf({5}), 2, 3)}, ""),
    E(406, Uncommon, {"TJ"}, {F({"TJ"}, OneOf({3}), 2, 3)}, ""),
    E(408, Rare, {"TL"}, {F({"TL"}, OneOf({8}), 2, 3)}, ""),
    E(412, Uncommon, {"TN"}, {F({"TN"}, OneOf({5}), 2, 3)}, ""),
    E(420, Uncommon, {"TR"}, {F({"TR"}, OneOf({8}), 2, 3)}, ""),
    E(410, Rare, {"TT"}, {F({"TT"}, OneOf({8}), 2, 3)}, ""),
    E(428, Uncommon, {"TU"}, {F({"TU"}, OneOf({2, 5}), 2, 3)}, "") }

Africa4 == {
    E(416, Uncommon, {"TY"}, {F({"TY"}, OneOf({1, 2}), 2, 3)}, ""),
    E(442, Uncommon, {"TZ"}, {F({"TZ"}, OneOf({4, 6}), 2, 3)}, ""),
    E(464, Uncommon, {"V5"}, {F({"V5"}, OneOf({1}), 2, 3)}, ""),
    E(33, Rare, {"VQ9"}, {F({"VQ9"}, InPrefix, 2, 2)}, ""),
    E(480, Uncommon, {"XT"}, {F({"XT"}, OneOf({2}), 2, 3)}, ""),
    E(452, Uncommon, {"Z2"}, {F({"Z2"}, OneOf({1}), 2, 3)}, ""),
    E(521, Rare, {"Z8"}, {F({"Z8"}, OneOf({1}), 2, 3)}, ""),
    E(250, Uncommon, {"ZD7"}, {F({"ZD7"}, InPrefix, 2, 3)}, ""),
    E(205, Uncommon, {"ZD8"}, {F({"ZD8"}, InPrefix, 2, 3)}, ""),
    E(274, Rare, {"ZD9"}, {F({"ZD9"}, InPrefix, 2, 3)}, ""),
    E(462, Regular, {"ZS", "ZR", "ZT", "ZU", "S8"}, {F({"ZS", "ZR"}, OneOf({1, 2, 3, 4, 5, 6}), 2, 3)}, ""),
    E(201, Rare, {"ZS8", "ZR8", "ZT8", "ZU8"}, {F({"ZS8"}, InPrefix, 2, 3)}, ""),
    E(111, Rare, {"VK0"}, {F({"VK0"}, InPrefix, 2, 3)}, "H") }

Asia1 == {
    E(318, Regular, {"B", "XS", "3H", "3I", "3J", "3K", "3L", "3M", "3N", "3O", "3P", "3Q", "3R", "3S",
        "3T", "3U"}, {F({"BA", "BD", "BG", "BH", "BI", "BY"}, FromRegion, 2, 3)}, ""),
    E(386, Regular, {"BV", "BX", "BM", "BN", "BO", "BP", "BQ", "BU", "BW"}, {F({"BV", "BX", "BM", "BN"},
        OneOf({0, 1, 2, 3, 4, 5, 6, 7, 8}), 2, 3)}, ""),
    E(505, Rare, {"BV9P"}, {F({"BV9P"}, InPrefix, 1, 2)}, ""),
    E(506, Rare, {"BS7H"}, {F({"BS7H"}, InPrefix, 0, 1)}, ""),
    E(339, Common, {"JA", "JB", "JC", "JD", "JE", "JF", "JG", "JH", "JI", "JJ", "JK", "JL", "JM", "JN",
        "JO", "JP", "JQ", "JR", "JS", "7J", "7K", "7L", "7M", "7N", "8J", "8K", "8L", "8M", "8N"}, {F({"JA",
        "JE", "JF", "JG", "JH", "JI", "JJ", "JK", "JL", "JM", "JN", "JO", "JP", "JQ", "JR"}, FromRegion, 3,
        3), F({"JA"}, FromRegion, 2, 2)}, ""),
    E(192, Uncommon, {"JD1"}, {F({"JD1"}, InPrefix, 2, 3)}, ""),
    E(363, Uncommon, {"JT", "JU", "JV"}, {F({"JT"}, OneOf({1, 2, 3}), 2, 3)}, ""),
    E(137, Regular, {"HL", "DS", "DT", "6K", "6L", "6M", "6N"}, {F({"HL", "DS", "6K"}, OneOf({1, 2, 3, 4,
        5}), 2, 3)}, ""),
    E(344, Rare, {"P5"}, {F({"P5"}, OneOf(D0_9), 2, 3)}, ""),
    E(321, Uncommon, {"VR2"}, {F({"VR2"}, InPrefix, 2, 3)}, ""),
    E(152, Uncommon, {"XX9"}, {F({"XX9"}, InPrefix, 2, 3)}, ""),
    E(387, Regular, {"HS", "E2"}, {F({"HS", "E2"}, OneOf(D0_9), 2, 3)}, ""),
    E(293, Uncommon, {"3W", "XV"}, {F({"3W", "XV"}, OneOf(D1_9), 2, 3)}, ""),
    E(143, Uncommon, {"XW"}, {F({"XW"}, OneOf(D0_9), 2, 3)}, ""),
    E(312, Uncommon, {"XU7"}, {F({"XU7"}, InPrefix, 2, 3)}, ""),
    E(309, Uncommon, {"XY", "XZ"}, {F({"XZ"}, OneOf(D1_9), 2, 3)}, "") }

Asia2 == {
    E(299, Uncommon, {"9M2", "9M4", "9W2"}, {F({"9M2", "9M4", "9W2"}, InPrefix, 2, 3)}, ""),
    E(381, Uncommon, {"9V", "S6"}, {F({"9V1"}, InPrefix, 2, 3)}, ""),
    E(247, Rare, {"9M0", "1S", "BV9S", "DX0"}, {F({"9M0", "1S0"}, InPrefix, 2, 3)}, ""),
    E(324, Regular, {"VU", "AT", "AU", "AV", "AW", "8T", "8U", "8V", "8W", "8X", "8Y"}, {F({"VU"}, OneOf({2,
        3}), 2, 3)}, ""),
    E(11, Rare, {"VU4"}, {F({"VU4"}, InPrefix, 2, 3)}, ""),
    E(142, Rare, {"VU7"}, {F({"VU7"}, InPrefix, 2, 3)}, ""),
    E(315, Uncommon, {"4P", "4Q", "4R", "4S"}, {F({"4S7"}, InPrefix, 2, 3)}, ""),
    E(159, Uncommon, {"8Q7"}, {F({"8Q7"}, InPrefix, 2, 3)}, ""),
    E(369, Uncommon, {"9N1", "9N7"}, {F({"9N1", "9N7"}, InPrefix, 2, 3)}, ""),
    E(306, Rare, {"A51"}, {F({"A51"}, InPrefix, 2, 3)}, ""),
    E(305, Uncommon, {"S2", "S3"}, {F({"S21"}, InPrefix, 2, 3)}, ""),
    E(372, Uncommon, {"AP", "AQ", "AR", "AS", "6P", "6Q", "6R", "6S"}, {F({"AP"}, OneOf({2}), 2, 3)}, ""),
    E(3, Rare, {"YA", "T6"}, {F({"YA", "T6"}, OneOf(D1_9), 2, 3)}, ""),
    E(330, Uncommon, {"EP", "EQ", "9B", "9C", "9D"}, {F({"EP"}, OneOf(D1_9), 2, 3)}, ""),
    E(333, Rare, {"YI", "HN"}, {F({"YI"}, OneOf(D1_9), 2, 3)}, ""),
    E(384, Rare, {"YK", "6C"}, {F({"YK"}, OneOf(D1_9), 2, 3)}, ""),
    E(354, Uncommon, {"OD5"}, {F({"OD5"}, InPrefix, 2, 3)}, ""),
    E(336, Regular, {"4X", "4Z"}, {F({"4X", "4Z"}, OneOf({1, 2, 3, 4, 5, 6}), 2, 3)}, ""),
    E(510, Uncommon, {"E4"}, {F({"E4"}, OneOf(D0_9), 2, 3)}, ""),
    E(342, Uncommon, {"JY"}, {F({"JY"}, OneOf(D1_9), 2, 3)}, ""),
    E(378, Uncommon, {"HZ", "7Z", "8Z"}, {F({"HZ", "7Z"}, OneOf(D1_9), 2, 3)}, "") }

Asia3 == {
    E(348, Uncommon, {"9K2"}, {F({"9K2"}, InPrefix, 2, 3)}, ""),
    E(304, Uncommon, {"A9"}, {F({"A92"}, InPrefix, 2, 3)}, ""),
    E(376, Uncommon, {"A7"}, {F({"A7"}, OneOf(D1_9), 2, 3)}, ""),
    E(391, Uncommon, {"A6"}, {F({"A6"}, OneOf(D1_9), 2, 3)}, ""),
    E(370, Uncommon, {"A4"}, {F({"A4"}, OneOf(D1_9), 2, 3)}, ""),
    E(492, Rare, {"7O"}, {F({"7O"}, OneOf(D0_9), 2, 3)}, ""),
    E(215, Uncommon, {"5B", "C4", "H2", "P3"}, {F({"5B"}, OneOf({4}), 2, 3)}, ""),
    E(283, Uncommon, {"ZC4"}, {F({"ZC4"}, InPrefix, 2, 3)}, ""),
    E(14, Uncommon, {"EK"}, {F({"EK"}, OneOf({6}), 2, 3)}, ""),
    E(75, Uncommon, {"4L"}, {F({"4L"}, OneOf(D1_9), 2, 3)}, ""),
    E(18, Uncommon, {"4J", "4K"}, {F({"4J", "4K"}, OneOf(D1_9), 2, 3)}, ""),
    E(292, Uncommon, {"UJ", "UK", "UL", "UM"}, {F({"UK"}, OneOf({8}), 2, 3)}, ""),
    E(130, Regular, {"UN", "UO", "UP", "UQ"}, {F({"UN"}, OneOf({6, 7, 8, 9}), 2, 3)}, ""),
    E(135, Uncommon, {"EX"}, {F({"EX"}, OneOf({0, 2, 8}), 2, 3)}, ""),
    E(262, Uncommon, {"EY"}, {F({"EY"}, OneOf({8}), 2, 3)}, ""),
    E(280, Uncommon, {"EZ"}, {F({"EZ"}, OneOf({8}), 2, 3)}, ""),
    E(15, Regular, {"R8", "R9", "R0", "RA8", "RA9", "RA0", "RB8", "RB9", "RB0", "RC8", "RC9", "RC0", "RD8",
        "RD9", "RD0", "RE8", "RE9", "RE0", "RF8", "RF9", "RF0", "RG8", "RG9", "RG0", "RH8", "RH9", "RH0",
        "RI8", "RI9", "RI0", "RJ8", "RJ9", "RJ0", "RK8", "RK9", "RK0", "RL8", "RL9", "RL0", "RM8", "RM9",
        "RM0", "RN8", "RN9", "RN0", "RO8", "RO9", "RO0", "RP8", "RP9", "RP0", "RQ8", "RQ9", "RQ0", "RR8",
        "RR9", "RR0", "RS8", "RS9", "RS0", "RT8", "RT9", "RT0", "RU8", "RU9", "RU0", "RV8", "RV9", "RV0",
        "RW8", "RW9", "RW0", "RX8", "RX9", "RX0", "RY8", "RY9", "RY0", "RZ8", "RZ9", "RZ0", "UA8", "UA9",
        "UA0", "UB8", "UB9", "UB0", "UC8", "UC9", "UC0", "UD8", "UD9", "UD0", "UE8", "UE9", "UE0", "UF8",
        "UF9", "UF0", "UG8", "UG9", "UG0", "UH8", "UH9", "UH0", "UI8", "UI9", "UI0"}, {F({"UA", "RA", "RW",
        "RV", "RU", "RX", "RZ", "R", "UB"}, FromRegion, 2, 3)}, "") }

Oceania1 == {
    E(150, Regular, {"VK", "AX", "VH", "VI", "VJ", "VL", "VM", "VN", "VZ"}, {F({"VK"}, FromRegion, 2, 3)}, ""),
    E(38, Uncommon, {"VK9C"}, {F({"VK9C"}, InPrefix, 2, 2)}, ""),
    E(147, Uncommon, {"VK9L"}, {F({"VK9L"}, InPrefix, 2, 2)}, ""),
    E(171, Rare, {"VK9M"}, {F({"VK9M"}, InPrefix, 2, 2)}, ""),
    E(189, Uncommon, {"VK9N"}, {F({"VK9N"}, InPrefix, 2, 2)}, ""),
    E(303, Rare, {"VK9W"}, {F({"VK9W"}, InPrefix, 2, 2)}, ""),
    E(35, Uncommon, {"VK9X"}, {F({"VK9X"}, InPrefix, 2, 2)}, ""),
    E(153, Rare, {"VK0"}, {F({"VK0"}, InPrefix, 2, 3)}, "M"),
    E(170, Regular, {"ZL", "ZK", "ZM"}, {F({"ZL", "ZM"}, FromRegion, 2, 3)}, ""),
    E(34, Uncommon, {"ZL7", "ZM7"}, {F({"ZL7", "ZM7"}, InPrefix, 2, 3)}, ""),
    E(133, Rare, {"ZL8", "ZM8"}, {F({"ZL8", "ZM8"}, InPrefix, 2, 3)}, ""),
    E(16, Rare, {"ZL9", "ZM9"}, {F({"ZL9", "ZM9"}, InPrefix, 2, 3)}, ""),
    E(270, Rare, {"ZK3"}, {F({"ZK3"}, InPrefix, 2, 3)}, ""),
    E(176, Uncommon, {"3D2"}, {F({"3D2"}, InPrefix, 2, 3)}, ""),
    E(460, Rare, {"3D2"}, {F({"3D2"}, InPrefix, 2, 3)}, "R"),
    E(489, Rare, {"3D2"}, {F({"3D2"}, InPrefix, 2, 3)}, "C"),
    E(160, Uncommon, {"A3"}, {F({"A3"}, OneOf({5}), 2, 3)}, ""),
    E(190, Uncommon, {"5W"}, {F({"5W"}, OneOf({0, 1}), 2, 3)}, ""),
    E(234, Uncommon, {"E51"}, {F({"E51"}, InPrefix, 2, 3)}, "") }

Oceania2 == {
    E(191, Rare, {"E51"}, {F({"E51"}, InPrefix, 2, 3)}, "N"),
    E(188, Uncommon, {"E6"}, {F({"E6"}, InPrefix, 2, 2)}, ""),
    E(298, Uncommon, {"FW"}, {F({"FW"}, OneOf({1, 5}), 2, 3)}, ""),
    E(175, Uncommon, {"FO"}, {F({"FO"}, OneOf({5}), 2, 3)}, ""),
    E(508, Rare, {"FO"}, {F({"FO"}, OneOf({0}), 2, 3)}, "A"),
    E(509, Uncommon, {"FO"}, {F({"FO"}, OneOf({0}), 2, 3)}, "M"),
    E(162, Uncommon, {"FK"}, {F({"FK"}, OneOf({8}), 2, 3)}, ""),
    E(512, Rare, {"FK"}, {F({"FK"}, OneOf({8}), 2, 3)}, "C"),
    E(172, Rare, {"VP6"}, {F({"VP6"}, InPrefix, 2, 2)}, ""),
    E(513, Rare, {"VP6"}, {F({"VP6"}, InPrefix, 2, 2)}, "D"),
    E(158, Uncommon, {"YJ"}, {F({"YJ"}, OneOf({0}), 2, 3)}, ""),
    E(185, Uncommon, {"H4"}, {F({"H44"}, InPrefix, 2, 3)}, ""),
    E(507, Rare, {"H40"}, {F({"H40"}, InPrefix, 2, 3)}, ""),
    E(282, Uncommon, {"T2"}, {F({"T2"}, InPrefix, 2, 3)}, ""),
    E(301, Uncommon, {"T30"}, {F({"T30"}, InPrefix, 2, 3)}, ""),
    E(31, Rare, {"T31"}, {F({"T31"}, InPrefix, 2, 3)}, ""),
    E(48, Uncommon, {"T32"}, {F({"T32"}, InPrefix, 2, 3)}, ""),
    E(490, Rare, {"T33"}, {F({"T33"}, InPrefix, 2, 3)}, ""),
    E(157, Uncommon, {"C2"}, {F({"C2"}, OneOf({1}), 2, 3)}, ""),
    E(168, Uncommon, {"V7"}, {F({"V7"}, OneOf({3}), 2, 3)}, ""),
    E(173, Uncommon, {"V6"}, {F({"V6"}, OneOf({3}), 2, 3)}, "") }

Oceania3 == {
    E(22, Uncommon, {"T8"}, {F({"T8"}, OneOf({8}), 2, 3)}, ""),
    E(163, Uncommon, {"P2"}, {F({"P2"}, OneOf({9}), 2, 3)}, ""),
    E(327, Regular, {"YB", "YC", "YD", "YE", "YF", "YG", "YH", "PK", "PL", "PM", "PN", "PO", "7A", "7B",
        "7C", "7D", "7E", "7F", "7G", "7H", "7I", "8A", "8B", "8C", "8D", "8E", "8F", "8G", "8H", "8I"},
        {F({"YB", "YC", "YD", "YE", "YF", "YG", "YH"}, OneOf(D0_9), 2, 3)}, ""),
    E(511, Uncommon, {"4W"}, {F({"4W"}, OneOf({6}), 2, 3)}, ""),
    E(375, Regular, {"DU", "DV", "DW", "DX", "DY", "DZ", "4D", "4E", "4F", "4G", "4H", "4I"}, {F({"DU",
        "DV", "DW", "DY", "DZ", "4F"}, OneOf(D1_9), 2, 3)}, ""),
    E(46, Uncommon, {"9M6", "9M8", "9W6", "9W8"}, {F({"9M6", "9M8", "9W6", "9W8"}, InPrefix, 2, 3)}, ""),
    E(345, Uncommon, {"V8"}, {F({"V85"}, InPrefix, 2, 3)}, ""),
    E(110, Regular, {"KH6", "KH7", "AH6", "AH7", "NH6", "NH7", "WH6", "WH7"}, {F({"KH6", "AH6", "NH6",
        "WH6", "KH7"}, InPrefix, 2, 3)}, ""),
    E(138, Rare, {"KH7K"}, {F({"KH7K"}, InPrefix, 1, 2)}, ""),
    E(103, Uncommon, {"KH2", "AH2", "NH2", "WH2"}, {F({"KH2", "AH2", "NH2", "WH2"}, InPrefix, 2, 3)}, ""),
    E(166, Uncommon, {"KH0", "AH0", "NH0", "WH0"}, {F({"KH0", "AH0", "NH0", "WH0"}, InPrefix, 2, 3)}, ""),
    E(20, Rare, {"KH1", "AH1", "NH1", "WH1"}, {F({"KH1"}, InPrefix, 2, 3)}, ""),
    E(123, Rare, {"KH3", "AH3", "NH3", "WH3"}, {F({"KH3"}, InPrefix, 2, 3)}, ""),
    E(174, Rare, {"KH4", "AH4", "NH4", "WH4"}, {F({"KH4"}, InPrefix, 2, 3)}, ""),
    E(197, Rare, {"KH5", "AH5", "NH5", "WH5"}, {F({"KH5"}, InPrefix, 2, 3)}, ""),
    E(9, Uncommon, {"KH8", "AH8", "NH8", "WH8"}, {F({"KH8", "AH8", "NH8", "WH8"}, InPrefix, 2, 3)}, ""),
    E(515, Rare, {"KH8"}, {F({"KH8"}, InPrefix, 2, 3)}, "S"),
    E(297, Rare, {"KH9", "AH9", "NH9", "WH9"}, {F({"KH9"}, InPrefix, 2, 3)}, ""),
    E(177, Rare, {"JD1"}, {F({"JD1"}, InPrefix, 2, 3)}, "M") }

Antarctica == {
    E(13, Uncommon, {"CE9", "KC4AA", "KC4US", "RI1AN", "R1AN", "8J1R", "ZS7", "FT0Y", "FT1Y", "FT2Y",
        "FT3Y", "FT4Y", "FT5Y", "FT6Y", "FT7Y", "FT8Y", "FT9Y"}, {F({"CE9"}, InPrefix, 2, 3), F({"KC4AA",
        "KC4US"}, InPrefix, 1, 1), F({"RI1AN"}, InPrefix, 1, 2), F({"8J1R"}, InPrefix, 2, 3)}, ""),
    E(199, Rare, {"3Y"}, {F({"3Y"}, OneOf({0}), 2, 3)}, "P") }

WORLD == {UnitedStates} \cup UNION {
    Europe1, Europe2, Europe3, Europe4, NorthAmerica1, NorthAmerica2, NorthAmerica3, SouthAmerica1,
    SouthAmerica2, Africa1, Africa2, Africa3, Africa4, Asia1, Asia2, Asia3, Oceania1, Oceania2,
    Oceania3, Antarctica }

\* The call areas of the entities that have them.
Areas(dxcc) ==
    CASE dxcc = USA -> US_REGIONS
      [] dxcc = 54 -> Numbered({1, 3, 4, 6, 7})  \* european russia
      [] dxcc = 1 -> Lettered({1, 2, 3, 4, 5, 6, 7}, {"VE", "VA"}) \cup Lettered({8, 9}, {"VE"}) \cup Lettered({1, 2}, {"VO"}) \cup Lettered({0, 1, 2}, {"VY"})  \* canada
      [] dxcc = 108 -> Numbered({1, 2, 3, 4, 5, 6, 7, 8, 9})  \* brazil
      [] dxcc = 318 -> Numbered({1, 2, 3, 4, 5, 6, 7, 8, 9, 0})  \* china
      [] dxcc = 339 -> Numbered({1, 2, 3, 4, 5, 6, 7, 8, 9, 0})  \* japan
      [] dxcc = 15 -> Numbered({9, 8, 0})  \* asiatic russia
      [] dxcc = 150 -> Numbered({1, 2, 3, 4, 5, 6, 7, 8})  \* australia
      [] dxcc = 170 -> Numbered({1, 2, 3, 4})  \* new zealand
      [] OTHER -> {}

-----------------------------------------------------------------------------
(* Callsigns (cat-morse/src/scenario/callsign.rs).                         *)

MODIFIERS == {"P", "M", "A", "B", "QRP"}
NO_ENTITY == {"MM", "AM"}
Digit == {"0", "1", "2", "3", "4", "5", "6", "7", "8", "9"}
DigitText == <<"0", "1", "2", "3", "4", "5", "6", "7", "8", "9">>
NoDigit == 10
NoArea == R(NoDigit, {})
Nowhere == [dxcc |-> 0, area |-> NoArea]
Home(dxcc, area) == [dxcc |-> dxcc, area |-> area]

At(s, i) == SubSeq(s, i, i)
StartsWith(s, p) == SubSeq(s, 1, Len(p)) = p
HasDigit(s) == \E i \in 1..Len(s) : At(s, i) \in Digit
AllDigits(s) == \A i \in 1..Len(s) : At(s, i) \in Digit
EndsInDigit(s) == At(s, Len(s)) \in Digit

ByNumber(entities) == [d \in {e.dxcc : e \in entities} |-> CHOOSE e \in entities : e.dxcc = d]
ByPrefix(entities) ==
    [p \in UNION {e.prefixes : e \in entities} |-> (CHOOSE e \in entities : p \in e.prefixes).dxcc]
Entities == ByNumber(WORLD)
AreasOf == [d \in {e.dxcc : e \in WORLD} |-> Areas(d)]
AllPrefixes == UNION {e.prefixes : e \in WORLD}
Owner == ByPrefix({e \in WORLD : e.tag = ""})

\* entity_of: the untagged entity with the longest prefix the piece starts with.
Fits(piece, p, designator) ==
    \/ p \notin DOMAIN EXACT_SUFFIX
    \/ Len(piece) = Len(p) + EXACT_SUFFIX[p]
    \/ designator /\ Len(piece) = Len(p)

OwnedBy(owner, piece, designator) ==
    LET matching == {k \in 1..Len(piece) : /\ SubSeq(piece, 1, k) \in DOMAIN owner
                                            /\ Fits(piece, SubSeq(piece, 1, k), designator)}
    IN  IF matching = {} THEN 0 ELSE owner[SubSeq(piece, 1, Max(matching))]

EntityOf(piece, designator) == OwnedBy(Owner, piece, designator)

\* area_digit: the first digit, or the second character on if the first is one.
AreaDigit(piece) ==
    LET from == IF Len(piece) > 1 /\ At(piece, 1) \in Digit THEN 2 ELSE 1
        at   == {i \in from..Len(piece) : At(piece, i) \in Digit}
    IN  IF at = {} THEN NoDigit ELSE CHOOSE d \in 0..9 : DigitText[d + 1] = At(piece, Min(at))

AreaIn(found) == IF found = {} THEN NoArea ELSE CHOOSE a \in found : TRUE

\* Entity::region: the call area of a call starting `piece` with that digit.
RegionOf(dxcc, piece, digit) ==
    AreaIn({a \in AreasOf[dxcc] : /\ a.digit = digit
                                  /\ a.prefixes = {} \/ \E p \in a.prefixes : StartsWith(piece, p)})

IsBarePrefix(p) == EndsInDigit(p) \/ p \in AllPrefixes

Longest(c, I) == {i \in I : \A j \in I : Len(c[j]) <= Len(c[i])}
FirstOf(preferred, others) == Min(IF preferred # {} THEN preferred ELSE others)
FirstCall(c, long) == FirstOf({i \in long : ~IsBarePrefix(c[i])}, long)

\* base_part: which piece is the call proper.
BaseAt(c) ==
    LET candidates == {i \in DOMAIN c : HasDigit(c[i]) /\ c[i] \notin MODIFIERS \cup NO_ENTITY}
    IN  IF Len(c) = 1 THEN 1
        ELSE IF candidates = {} THEN Max(Longest(c, DOMAIN c))
        ELSE FirstCall(c, Longest(c, candidates))

Base(c) == c[BaseAt(c)]

\* tagged: the entity a tag names for a call with this base.
Tagged(base, tag) ==
    {e \in WORLD : tag # "" /\ e.tag = tag /\ \E p \in e.prefixes : StartsWith(base, p)}

PlacedIn(dxcc, entityPiece, digitPiece) ==
    IF dxcc = 0 THEN Nowhere ELSE Home(dxcc, RegionOf(dxcc, entityPiece, AreaDigit(digitPiece)))

HomeBy(entityPiece, asDesignator, digitPiece) ==
    PlacedIn(EntityOf(entityPiece, asDesignator), entityPiece, digitPiece)

\* home_of: the pieces after the base are read in order, and the first tag or
\* "in no entity" piece decides; else the designator beside the base, or the base.
HomeFrom(c, b, tags) ==
    LET after   == (b + 1)..Len(c)
        stops   == {i \in after : c[i] \in NO_ENTITY} \cup tags
        plain   == {i \in after : c[i] \notin MODIFIERS}
        where   == IF b > 1 THEN b - 1 ELSE IF plain # {} THEN Max(plain) ELSE b
        asPlace == where # b /\ ~AllDigits(c[where])
    IN  IF stops = {} THEN HomeBy(c[IF asPlace THEN where ELSE b], asPlace, c[where])
        ELSE IF Min(stops) \in tags
             THEN Home((CHOOSE e \in Tagged(c[b], c[Min(stops)]) : TRUE).dxcc, NoArea)
             ELSE Nowhere

HomeWithBase(c, b) == HomeFrom(c, b, {i \in (b + 1)..Len(c) : Tagged(c[b], c[i]) # {}})

HomeOf(c) == HomeWithBase(c, BaseAt(c))

TextLength(c) == MapThenSumSet(LAMBDA i : Len(c[i]), DOMAIN c) + Len(c) - 1

\* Callsign::parse, of a call made of upper-case letters and digits.
MixesDigits(base) == HasDigit(base) /\ ~AllDigits(base)
Parses(c) == TextLength(c) \in 3..14 /\ MixesDigits(Base(c))

\* Homes the generator draws: an area of the entity where it has areas.
HomesAmong(dxcc, areas) == {Home(dxcc, a) : a \in IF areas = {} THEN {NoArea} ELSE areas}
HomesIn(dxcc) == HomesAmong(dxcc, AreasOf[dxcc])

SuffixesOf(n) ==
    CASE n = 0 -> {""}
      [] n = 1 -> FirstLetters
      [] n = 2 -> {a \o b : a \in FirstLetters, b \in OtherLetters}
      [] OTHER -> {a \o b \o c : a \in FirstLetters, b \in OtherLetters, c \in OtherLetters}

\* prefix_and_digit: what a call of format f from h may start with.
Starts(f, h) ==
    CASE f.digit.rule = "prefix" -> f.prefixes
      [] f.digit.rule = "one" -> {p \o DigitText[d + 1] : p \in f.prefixes, d \in f.digit.digits}
      [] f.digit.rule = "region" ->
            UNION {{p \o DigitText[a.digit + 1] : p \in IF a.prefixes = {} THEN f.prefixes ELSE a.prefixes} :
                      a \in IF h.area = NoArea THEN AreasOf[h.dxcc] ELSE {h.area}}

\* call_in_format: the calls of format f from h, a tagged entity's with its tag.
CallsInFormat(f, h, tag) ==
    UNION {{IF tag = "" THEN <<s \o x>> ELSE <<s \o x, tag>> : s \in Starts(f, h), x \in SuffixesOf(n)} :
              n \in f.lo..f.hi}

DrawsOf(entity, h) == UNION {CallsInFormat(f, h, entity.tag) : f \in entity.formats}
Draws(h) == DrawsOf(Entities[h.dxcc], h)
Accepted(c, h) == Parses(c) /\ HomeOf(c) = h

\* (A mutant of CallFrom: carve-outs are not redrawn.)
CallFromUnchecked(h) == Draws(h)

\* call_from: an accepted draw, or a near miss if no draw is accepted.
GoodOrAny(good, draws) == IF good = {} THEN draws ELSE good
AcceptedOf(draws, h) == GoodOrAny({c \in draws : Accepted(c, h)}, draws)
CallFrom(h) == AcceptedOf(Draws(h), h)

\* designator: prefixes that put a visiting station in h.
Tries(entity, h) ==
    IF entity.tag # "" THEN {}
    ELSE UNION {Starts(f, h) \cup (IF f.digit.rule = "one" THEN f.prefixes ELSE {}) : f \in entity.formats}
Designators(h) ==
    {t \in Tries(Entities[h.dxcc], h) :
        EntityOf(t, TRUE) = h.dxcc /\ RegionOf(h.dxcc, t, AreaDigit(t)) = h.area}

Init == home \in UNION {HomesIn(d) : d \in Countries} /\ call = <<>> /\ licence = ""

Sends(c, l) == call' = c /\ licence' = l /\ UNCHANGED home

\* station_call, one action for each way it returns.
SendPlain ==
    /\ call = <<>>
    /\ \E c \in CallFrom(home) : Sends(c, c[1])

SendPortable ==
    /\ call = <<>> /\ Entities[home.dxcc].tag = ""
    /\ \E c \in CallFrom(home), s \in {"P", "M", "QRP"} :
          /\ Accepted(<<c[1], s>>, home)
          /\ Sends(<<c[1], s>>, c[1])

SendAbroad ==
    /\ call = <<>> /\ Entities[home.dxcc].tag = ""
    /\ \E v \in Visitors \ {home.dxcc} : \E from \in HomesIn(v) : \E l \in CallFrom(from), d \in Designators(home) :
          /\ Len(l) = 1 /\ Len(l[1]) > Len(d)
          /\ Accepted(<<d, l[1]>>, home)
          /\ Sends(<<d, l[1]>>, l[1])

SendOtherArea ==
    /\ call = <<>> /\ home.dxcc = USA /\ home.area # NoArea
    /\ \E from \in HomesIn(USA) \ {home} : \E l \in CallFrom(from) :
          Sends(<<l[1], DigitText[home.area.digit + 1]>>, l[1])

Next == SendPlain \/ SendPortable \/ SendAbroad \/ SendOtherArea

Spec == Init /\ [][Next]_vars

\* A station's call says where the station is: whatever way station_call makes
\* the call -- plain, portable, signed abroad, signed in another call area, or
\* after redrawing what fell into a carve-out -- home_of reads the station's
\* own entity and call area back from it.
HomeAsSent == call # <<>> => HomeOf(call) = home

\* The base of a call is the licence behind it: a designator or a modifier is
\* never taken for the call itself, so that fresh_call, which compares bases,
\* never puts one operator on the air twice.
BaseIsLicence == call # <<>> => Base(call) = licence

\* call_from redraws only what belongs to another entity: a draw that is
\* refused is well formed and reads as a different entity's call.
OnlyCarveOutsRedrawn ==
    call = <<>> => \A c \in Draws(home) : \/ Accepted(c, home)
                                          \/ Parses(c) /\ HomeOf(c).dxcc \notin {0, home.dxcc}
=============================================================================
