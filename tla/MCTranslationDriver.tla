------------------------ MODULE MCTranslationDriver ------------------------
(* Small instances of the translation driver.                              *)
EXTENDS TranslationDriver

CONSTANTS r1, r2, r3

MCRequests == {r1, r2, r3}
OnePairOf == [r \in MCRequests |-> "zh>en"]
=============================================================================
