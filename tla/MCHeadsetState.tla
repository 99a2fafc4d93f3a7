--------------------------- MODULE MCHeadsetState ---------------------------
EXTENDS HeadsetState, TLC

Change(of, value) == [of |-> of, value |-> value]

MCRequest == {Change("level", 4), Change("mode", "off"), Change("feature", TRUE)}

MCWear == [nothing |-> {Change("anc", <<1, 6>>)},
           airpods |-> {Change("mode", "anc"), Change("feature", TRUE)}]

MCFirst == [nothing |-> {[anc |-> <<5, 3>>]}, airpods |-> {[mode |-> "off", feature |-> FALSE]}]

MCFollowed == [nothing |-> <<"level">>, airpods |-> <<"mode", "feature">>]

MCAsked == [nothing |-> <<"anc">>, airpods |-> <<"mode">>]

MCMaxChances == [nothing |-> 3, airpods |-> 4]

Symmetry == Permutations(Caller)
=============================================================================
