---------------------------- MODULE MCBenchSums ----------------------------
(***************************************************************************)
(* The arithmetic of the benchmarks for job sizes the state machine of     *)
(* AllreduceBenchmark is too large for: clean buffers first, then one more *)
(* rank corrupted at a time.                                               *)
(***************************************************************************)
EXTENDS BenchValidate

CONSTANTS
  Types,    \* datatypes
  Shapes    \* records: job size, elements, how many ranks may be corrupted

VARIABLES shape, type, send, hits

Init ==
  /\ shape \in Shapes /\ type \in Types
  /\ send = [r \in 0 .. shape.size - 1 |-> Filled(type, shape.count, r)]
  /\ hits = {}

Next == \E r \in DOMAIN send, i \in 1 .. shape.count :
  /\ Cardinality(hits) < shape.hits
  /\ r \notin {hit[1] : hit \in hits}
  /\ send' = [send EXCEPT ![r] = Corrupted(type, @, i)]
  /\ hits' = hits \cup {<<r, i>>}
  /\ UNCHANGED <<shape, type>>

Spec == Init /\ [][Next]_<<shape, type, send, hits>>

Wrong == Validate(Reduced(type, send), shape.size)

\* The validation is right: clean buffers pass, each corrupted element is
\* found, and no other.  The sums of correct runs must match, and those of
\* several corrupted ranks must not cancel (README: validates the correctness
\* of the result; --corrupt tests if validation detects errors properly).
ValidationRight == Wrong = Cardinality({hit[2] : hit \in hits})

Small == {[size |-> n, count |-> 1, hits |-> n] : n \in 1 .. 11} \cup
         {[size |-> n, count |-> 3, hits |-> n] : n \in 1 .. 4} \cup
         {[size |-> n, count |-> 2, hits |-> 2] : n \in 12 .. 16}
Seventeen == {[size |-> 17, count |-> 1, hits |-> 0]}
=============================================================================
