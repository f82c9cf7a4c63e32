--------------------------- MODULE Acknowledgement ---------------------------
(***************************************************************************)
(* What the export worker does with any answer to one batch                *)
(* (src/distributed.rs): IngestionAcknowledgement::validate goes through   *)
(* the two lists of the answer and remembers whom it has decided, and only *)
(* an answer that passes removes records from the spool.  An empty body    *)
(* with a status of success stands for the acceptance of the whole batch;  *)
(* the worker validates that one too.                                      *)
(***************************************************************************)
EXTENDS Naturals, Sequences, FiniteSets, SequencesExt, FiniteSetsExt

CONSTANTS
    Batch,      \* the sequences of the records, which stand for the message ids
    Foreign,    \* an id the batch does not have
    NotGiven,    \* an optional field or a body that is not there
    MaxDelay,   \* one day
    MaxEntries  \* bound: entries of each list of the answer

ASSUME AnswerAssumption ==
    /\ Batch \subseteq Nat /\ IsFiniteSet(Batch) /\ Batch # {}
    /\ Foreign \notin Batch /\ MaxDelay \in Nat /\ MaxEntries \in Nat

Ids == Batch \cup {Foreign}
Lists(S) == UNION {[1..n -> S] : n \in 0..MaxEntries}
Answers ==
    [accepted : Lists(Ids),
     rejected : Lists([id : Ids, reason : BOOLEAN]),
     highest : Ids \cup {NotGiven},
     retry : {NotGiven, MaxDelay, MaxDelay + 1}]

VARIABLES
    answer,        \* the document of the collector, or NotGiven for an empty body
    answerStage,   \* exporting, checking, removing, sleeping, delivered, retained
    checked,       \* entries of the two lists that validate has gone through
    decided,       \* the records they name
    onDisk,        \* records of the batch still in the spool
    sent, rejected   \* metrics
answerVars == <<answer, answerStage, checked, decided, onDisk, sent, rejected>>

WholeBatch == [accepted |-> SetToSeq(Batch), rejected |-> <<>>,
               highest |-> Max(Batch), retry |-> NotGiven]

NothingDone ==
    /\ answerStage = "exporting" /\ checked = 0 /\ decided = {} /\ onDisk = Batch
    /\ sent = 0 /\ rejected = 0
AnswerInit == answer \in Answers \cup {NotGiven} /\ NothingDone

\* The ids of both lists in the order validate meets them, and whether a
\* rejected one comes with a reason.
Named(a) == a.accepted \o [i \in DOMAIN a.rejected |-> a.rejected[i].id]
Unreasoned(a, i) == i > Len(a.accepted) /\ ~a.rejected[i - Len(a.accepted)].reason

AcceptedOf(a) == {r \in Batch : Contains(a.accepted, r)}

-----------------------------------------------------------------------------
\* HttpTelemetrySink::export
ReceiveAnswer ==
    /\ answerStage = "exporting"
    /\ answer' = IF answer = NotGiven THEN WholeBatch ELSE answer
    /\ answerStage' = "checking"
    /\ UNCHANGED <<checked, decided, onDisk, sent, rejected>>

\* Mutant: a record may be in both lists.
RefusedApart(i) ==
    \/ Named(answer)[i] \notin Batch
    \/ \E j \in 1..(i - 1) :
         /\ Named(answer)[j] = Named(answer)[i]
         /\ i > Len(answer.accepted) <=> j > Len(answer.accepted)
    \/ Unreasoned(answer, i)

\* An entry that is unknown, or decided before, or a rejection without a reason.
Refused(i) ==
    \/ Named(answer)[i] \notin Batch
    \/ Named(answer)[i] \in decided
    \/ Unreasoned(answer, i)

\* The loops of validate; the first entry they refuse ends them with an error.
CheckEntry ==
    /\ answerStage = "checking" /\ checked < Len(Named(answer))
    /\ IF Refused(checked + 1)
       THEN answerStage' = "retained" /\ UNCHANGED <<checked, decided>>
       ELSE /\ checked' = checked + 1 /\ decided' = decided \cup {Named(answer)[checked + 1]}
            /\ UNCHANGED answerStage
    /\ UNCHANGED <<answer, onDisk, sent, rejected>>

\* The rest of validate.  A refused answer is a failed attempt.
CheckRest ==
    /\ answerStage = "checking" /\ checked = Len(Named(answer))
    /\ answerStage' =
         IF /\ answer.highest # NotGiven =>
                 AcceptedOf(answer) # {} /\ answer.highest = Max(AcceptedOf(answer))
            /\ answer.retry # NotGiven => answer.retry <= MaxDelay
            /\ decided # {}
         THEN "removing" ELSE "retained"
    /\ UNCHANGED <<answer, checked, decided, onDisk, sent, rejected>>

\* spool.acknowledge for the accepted records, unless there are none.
RemoveAccepted ==
    /\ answerStage = "removing"
    /\ onDisk' = onDisk \ AcceptedOf(answer)
    /\ sent' = sent + Cardinality(AcceptedOf(answer))
    /\ rejected' = rejected + Len(answer.rejected)
    /\ answerStage' = IF answer.retry = NotGiven THEN "delivered" ELSE "sleeping"
    /\ UNCHANGED <<answer, checked, decided>>

\* retry_after_ms.
Sleep ==
    /\ answerStage = "sleeping" /\ answerStage' = "delivered"
    /\ UNCHANGED <<answer, checked, decided, onDisk, sent, rejected>>

AnswerNext == ReceiveAnswer \/ CheckEntry \/ CheckRest \/ RemoveAccepted \/ Sleep

AnswerSpec == AnswerInit /\ [][AnswerNext]_answerVars
-----------------------------------------------------------------------------
AnswerTypeOK ==
    /\ answer \in Answers \cup {NotGiven, WholeBatch}
    /\ answerStage \in {"exporting", "checking", "removing", "sleeping", "delivered", "retained"}
    /\ checked \in Nat /\ decided \subseteq Batch /\ onDisk \subseteq Batch
    /\ sent \in Nat /\ rejected \in Nat

\* A consistent answer, as the protocol means it: it decides something, and
\* nothing it decides is foreign or decided twice.
Consistent(a) ==
    /\ Named(a) # <<>> /\ IsInjective(Named(a)) /\ ToSet(Named(a)) \subseteq Batch
    /\ \A i \in DOMAIN a.rejected : a.rejected[i].reason
    /\ a.highest \in {NotGiven} \cup {r \in AcceptedOf(a) : \A q \in AcceptedOf(a) : q <= r}
    /\ a.retry \in {NotGiven} \cup 0..MaxDelay

\* When a batch is settled, exactly the accepted records of a consistent answer
\* have left the spool, and the metrics say how many; any other answer removes
\* nothing (src/distributed.rs:419, :728).
ExactlyAccepted ==
    answerStage \in {"delivered", "retained"} =>
      IF Consistent(answer)
      THEN /\ Batch \ onDisk = AcceptedOf(answer)
           /\ sent = Cardinality(Batch \ onDisk)
           /\ sent + rejected <= Cardinality(Batch)
      ELSE onDisk = Batch /\ sent = 0

\* Why: the loop has decided the entries it has gone through, each once, a refused
\* entry makes the answer inconsistent, and nothing is removed before the last check.
AnswerInv ==
    /\ answerStage = "exporting" => checked = 0 /\ decided = {}
    /\ answerStage # "exporting" => answer \in Answers \cup {WholeBatch}
    /\ answerStage = "checking" =>
         /\ checked \in 0..Len(Named(answer))
         /\ decided = {Named(answer)[i] : i \in 1..checked}
         /\ \A i, j \in 1..checked : Named(answer)[i] = Named(answer)[j] => i = j
         /\ \A i \in 1..checked : ~Unreasoned(answer, i)
    /\ answerStage \in {"removing", "sleeping", "delivered"} => Consistent(answer)
    /\ answerStage = "retained" => ~Consistent(answer)
    /\ answerStage \in {"exporting", "checking", "removing", "retained"} =>
         onDisk = Batch /\ sent = 0 /\ rejected = 0
    /\ answerStage \in {"sleeping", "delivered"} =>
         /\ onDisk = Batch \ AcceptedOf(answer)
         /\ sent = Cardinality(AcceptedOf(answer))
         /\ rejected = Len(answer.rejected)
=============================================================================
