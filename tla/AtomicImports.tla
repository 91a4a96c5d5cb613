----------------------------- MODULE AtomicImports -----------------------------
(***************************************************************************)
(* What the data repository promises of the rows it is given in batches,   *)
(* an import or a single statement.  A batch is stored as a whole or not   *)
(* at all, and a batch that was answered with "ok" is stored unless it is  *)
(* part of a transaction.  The batches of a transaction that is open when  *)
(* they are answered share its end.                                        *)
(***************************************************************************)
EXTENDS Naturals

CONSTANTS Batches, Size
VARIABLES stored,   \* rows of each batch that are stored
          answer,   \* what the caller was told
          open      \* answered batches whose transaction is open
aVars == <<stored, answer, open>>

AInit == /\ stored = [b \in Batches |-> 0]
         /\ answer = [b \in Batches |-> "none"]
         /\ open = {}

Answer(b, a) == answer[b] = "none" /\ answer' = [answer EXCEPT ![b] = a]
Store(bs) == stored' = [b \in Batches |-> IF b \in bs THEN Size[b] ELSE stored[b]]

ADone(b) == Answer(b, "ok") /\ Store({b}) /\ UNCHANGED open
\* A failure may end the transaction that is open; whether the commit of an
\* import that failed took place or not, no row of it is alone.
AFail(b) == Answer(b, "failed") /\ (Store({}) \/ Store({b})) /\ open' \in {open, {}}
APend(b) == (\E a \in {"ok", "failed"} : Answer(b, a)) /\ open' = open \cup {b} /\ UNCHANGED stored
AEnd == (Store({}) \/ Store(open)) /\ open' = {} /\ UNCHANGED answer

ANext == (\E b \in Batches : ADone(b) \/ AFail(b) \/ APend(b)) \/ AEnd
ASpec == AInit /\ [][ANext]_aVars
=============================================================================
