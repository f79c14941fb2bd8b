----------------------------- MODULE HelpEncoder -----------------------------
(* The encoder of questions to the help search (help_semantic.py,          *)
(* HelpQueryEncoder).  All questions of a process share one slot: the model *)
(* is not to run two encodes at once.  A caller waits for its turn in a     *)
(* bounded line, for a bounded time, and then for the vector for a bounded  *)
(* time; whoever gets none searches by words.  The encode is a task of its  *)
(* own, shielded from its caller: it runs on in a thread when the caller    *)
(* has stopped waiting, and hands the slot on when it ends.                 *)
(*                                                                         *)
(* The steps are those of the event loop, from one await to the next.      *)
(* Loading the weights (embedder.py, _load_off_loop) is part of the first   *)
(* encode and makes it longer; how long an encode takes is left open, and   *)
(* so is whether it ends at all.                                            *)
EXTENDS Naturals, Sequences, FiniteSets, SequencesExt

CONSTANTS
    Questions,      \* calls of encode in one process
    MaxWaiting      \* callers admitted at once, support_help_semantic_max_waiting

ASSUME EncoderAssumption == MaxWaiting \in Nat \ {0}

VARIABLES
    caller,         \* where each call of encode stands
    line,           \* callers waiting for the slot, in order
    encodes,        \* questions whose encode runs in its thread
    spare,          \* the semaphore's value: slots nobody holds
    waiting         \* self._waiting

encoderVars == <<caller, line, encodes, spare, waiting>>

\* A caller is away before its call; it stands in line, was handed the slot but
\* has not run yet, waits for its encode, or its encode ended with or without
\* a vector; then it has its answer, or was cancelled with its request.
Standing == {"line", "handed", "coding", "coded", "failed"}
Answers == {"vector", "words", "cancelled"}

EncoderTypeOK ==
    /\ caller \in [Questions -> {"away"} \cup Standing \cup Answers]
    /\ line \in Seq(Questions)
    /\ encodes \subseteq Questions
    /\ spare \in Nat
    /\ waiting \in Nat

EncoderInit ==
    /\ caller = [q \in Questions |-> "away"]
    /\ line = <<>>
    /\ encodes = {}
    /\ spare = 1
    /\ waiting = 0

-----------------------------------------------------------------------------
(* The semaphore (asyncio): a slot given back goes to the first in line,    *)
(* who runs in a later step of the loop.                                    *)

\* The callers after a slot came back in the state in which the others are
\* `callers` and wait in `others`.
HandOn(callers, others) ==
    IF others = <<>>
    THEN caller' = callers /\ line' = others /\ spare' = spare + 1
    ELSE /\ caller' = [callers EXCEPT ![Head(others)] = "handed"]
         /\ line' = Tail(others)
         /\ UNCHANGED spare

\* The line goes on without the caller.
StepOut(q) == \E i \in DOMAIN line : line[i] = q /\ line' = RemoveAt(line, i)

ForgetsItsTurn(q, answer) ==  \* fault
    /\ caller[q] \in {"line", "handed"}
    /\ caller' = [caller EXCEPT ![q] = answer]
    /\ IF caller[q] = "line" THEN StepOut(q) ELSE UNCHANGED line
    /\ UNCHANGED spare

\* The caller leaves the line, or hands on the slot it was given.
LeaveLine(q, answer) ==
    \/ /\ caller[q] = "line"
       /\ caller' = [caller EXCEPT ![q] = answer]
       /\ StepOut(q)
       /\ UNCHANGED spare
    \/ /\ caller[q] = "handed"
       /\ HandOn([caller EXCEPT ![q] = answer], line)

-----------------------------------------------------------------------------
(* encode                                                                   *)

\* A question past the bound is answered at once by words.  With a slot free
\* the caller takes it and starts its encode without waiting.
AskForVector(q) ==
    /\ caller[q] = "away"
    /\ \/ /\ waiting >= MaxWaiting
          /\ caller' = [caller EXCEPT ![q] = "words"]
          /\ UNCHANGED <<line, encodes, spare, waiting>>
       \/ /\ waiting < MaxWaiting
          /\ waiting' = waiting + 1
          /\ IF spare > 0
             THEN /\ spare' = spare - 1
                  /\ encodes' = encodes \cup {q}
                  /\ caller' = [caller EXCEPT ![q] = "coding"]
                  /\ UNCHANGED line
             ELSE /\ caller' = [caller EXCEPT ![q] = "line"]
                  /\ line' = Append(line, q)
                  /\ UNCHANGED <<encodes, spare>>

\* Its turn has come: the task is created.
StartEncode(q) ==
    /\ caller[q] = "handed"
    /\ caller' = [caller EXCEPT ![q] = "coding"]
    /\ encodes' = encodes \cup {q}
    /\ UNCHANGED <<line, spare, waiting>>

NoTimeoutInLine(q) ==  \* fault
    /\ caller[q] = "handed"
    /\ LeaveLine(q, "words")
    /\ waiting' = waiting - 1
    /\ UNCHANGED encodes

\* queue_seconds have passed.
QueueTimeout(q) ==
    /\ LeaveLine(q, "words")
    /\ waiting' = waiting - 1
    /\ UNCHANGED encodes

\* The vector is there, the encode failed, or timeout_seconds have passed,
\* perhaps in the same turn of the loop.
AnswerWith(q, answer) ==
    /\ caller[q] \in CASE answer = "vector" -> {"coded"}
                       [] answer = "words" -> {"coding", "coded", "failed"}
    /\ caller' = [caller EXCEPT ![q] = answer]
    /\ waiting' = waiting - 1
    /\ UNCHANGED <<line, encodes, spare>>

\* The request is cancelled: the client hung up.
HangUp(q) ==
    /\ waiting' = waiting - 1
    /\ UNCHANGED encodes
    /\ \/ LeaveLine(q, "cancelled")
       \/ /\ caller[q] \in {"coding", "coded", "failed"}
          /\ caller' = [caller EXCEPT ![q] = "cancelled"]
          /\ UNCHANGED <<line, spare>>

\* The thread is done, whoever still waits for it, and _release runs.
EndEncode(q) ==
    /\ q \in encodes
    /\ encodes' = encodes \ {q}
    /\ \E outcome \in {"coded", "failed"} :
           HandOn([caller EXCEPT ![q] = IF @ = "coding" THEN outcome ELSE @], line)
    /\ UNCHANGED waiting

AnswerStep(q) == AnswerWith(q, "vector") \/ AnswerWith(q, "words")

EncoderNext ==
    \E q \in Questions :
        AskForVector(q) \/ StartEncode(q) \/ QueueTimeout(q) \/ AnswerStep(q) \/ HangUp(q) \/ EndEncode(q)

\* The loop goes on with whoever is ready and fires the timers of who waits.
\* Nothing is assumed about the thread: an encode may take for ever.
EncoderFairness ==
    \A q \in Questions : WF_encoderVars(StartEncode(q) \/ QueueTimeout(q) \/ AnswerStep(q))

EncoderSpec == EncoderInit /\ [][EncoderNext]_encoderVars /\ EncoderFairness

-----------------------------------------------------------------------------
(* "the slot is released when the work actually finishes, never when a      *)
(* caller stops waiting for it" (help_semantic.py:79-81): two encodes never *)
(* run at once.  Nor is the slot lost, whatever order time-outs, cancelled  *)
(* requests and ends come in: it is spare, handed to one caller who still   *)
(* waits for it or used by one encode, it is spare only when nobody is in   *)
(* line, and the count of callers, which turns questions away, is theirs.   *)
HandedTo == {q \in Questions : caller[q] = "handed"}

OneEncodeAtATime ==
    /\ spare + Cardinality(HandedTo) + Cardinality(encodes) = 1
    /\ line # <<>> => spare = 0
    /\ ToSet(line) = {q \in Questions : caller[q] = "line"}
    /\ waiting = Cardinality({q \in Questions : caller[q] \in Standing})
    /\ waiting <= MaxWaiting

(* And the slot goes round in the order of the line: whatever order          *)
(* time-outs, cancelled requests and ends come in, the callers keep to what  *)
(* HelpDesk promises.  Nobody is turned away while there is room, nobody     *)
(* overtakes, and a slot that is free is taken by the next who asks.         *)
Desk == INSTANCE HelpDesk WITH
    asked <- {q \in Questions : caller[q] # "away"},
    inside <- {q \in Questions : caller[q] \in Standing},
    holder <- HandedTo \cup encodes,
    queue <- line

SlotGoesRound == Desk!Spec

(* A question asked is answered, from the vector or by words, or its        *)
(* request is gone, even when the encode before it never ends: "callers now *)
(* wait their turn inside a bounded budget" (help_semantic.py:72-73).       *)
Answered(q) == caller[q] \in Standing ~> caller[q] \in Answers
QuestionsAreAnswered == \A q \in Questions : Answered(q)
=============================================================================
