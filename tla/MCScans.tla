------------------------------ MODULE MCScans ------------------------------
\* Instances of module Scans: small registries, a source of one lane with the workspace
\* file, and three followed cases of which a pass reads two.
EXTENDS Scans

AllRows == 1..8
OneLane == {"goszakupki"}

MCQuestions == {[phrases |-> <<"tp">>, kept |-> AllRows],
                [phrases |-> <<"tp", "kru">>, kept |-> AllRows],
                [phrases |-> <<"kru", "tp">>, kept |-> AllRows \ {3}]}
MCListings == {[tp |-> <<5, 4, 3, 2, 1>>, kru |-> <<4, 2>>],
               [tp |-> <<4, 3>>, kru |-> <<5, 3, 2, 1>>]}

OnePhrase   == {<<"tp">>}
SomePhrases == {<<"tp">>, <<"tp", "kru">>}
MCFiltered  == {[tp |-> <<5, 4, 3, 2, 1>>, kru |-> <<6, 4, 2>>]}

MCTables   == {<<6, 5, 4, 3, 2, 1>>, <<5, 4, 3, 2>>}
MCDayOf    == <<1, 2, 2, 2, 3, 3, 4, 5>>
MCMatching == AllRows \ {3}

OneOrNone    == {{}, {"a"}}
AsManyAsRead == {{"a", "b"}}

\* Every reading ends, whatever cuts its calls, and so does that of a window by one
\* pass after the other; but for the registry scan whose answers fill up.
ReadingEnds ==
    scan # "deep" =>
        Phrase!ReadingEnds /\ Subject!ReadingEnds /\ Registry!ReadingEnds /\ WindowCloses

\* Every page of a truncated registry scan is reached in the end (butb-source.test.ts:191).
RegistryReadingEnds == Registry!ReadingEnds

\* No row the subject search collected is passed over (butb-source.ts:401).
NothingIsPassedOver == scan = "subject" => Subject!NothingIsPassedOver

\* A reading without a token reads the registry anew (butb-source.ts:419).
FreshReadingIsFresh == scan = "subject" => Subject!FreshReadingIsFresh

\* No row of a page that was read is cut and forgotten (goszakupki-by-source.ts:200).
NothingIsCut == scan = "phrase" => Phrase!NothingIsCut
=============================================================================
