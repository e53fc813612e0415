--------------------------- MODULE MCMeterRegistry ---------------------------
(* Model-checking instance of MeterRegistry: three meters, so that a text   *)
(* can be registered again after it was registered twice; one key in two    *)
(* spellings, and a text that is no key.                                    *)
EXTENDS MeterRegistry, TLC

CONSTANTS m1, m2, m3, lower, upper, garbled

Meters == {m1, m2, m3}
Texts == {lower, upper, garbled}
Decode ==
  [text \in Texts |-> CASE text \in {lower, upper} -> "k1"
                       [] OTHER -> None]

(* Nothing tells two rows of a text that is no key from one, and no batch   *)
(* stores a reading of either: it is sent once, and its check is answered.  *)
GarbledOnce ==
  /\ garbled \notin blind
  /\ Cardinality(RowsOf(garbled))
       + Cardinality({k \in Registration :
           registration[k] # None /\ registration[k].pubkey_hex = garbled}) <= 1

(* The spellings of one key are alike.                                      *)
Symmetry ==
  Permutations(Meters) \cup Permutations({lower, upper})
    \cup Permutations(Registration)

==============================================================================
