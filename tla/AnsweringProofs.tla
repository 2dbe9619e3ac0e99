--------------------------- MODULE AnsweringProofs --------------------------
(***************************************************************************)
(* Theorems about the answer to a question, for any number of requests,    *)
(* answers, pages, pieces of text and restarts: the turns of a chat        *)
(* (ChatTurn), the evidence a question gathers (Retrieval) and the text    *)
(* that is generated from it (Generation).                                 *)
(*                                                                         *)
(* ChatTurn relates rows and the table of active chats; what connects them *)
(* is the request that generates.  IInv adds what a request at each step   *)
(* knows of its own answer, and that nobody else works on it.              *)
(*                                                                         *)
(* For Retrieval, QInv says what main, the local side, the search and its  *)
(* fetches know of each other, whichever thread is first.                  *)
(*                                                                         *)
(* For Generation, GInv says what the guard of a stream has let go and     *)
(* what it holds, and which of the two budgets the prompt has.  It needs   *)
(* that a context is within its budget and grows with it: BuildContext is  *)
(* a fold, which FoldIsChain unrolls.                                      *)
(***************************************************************************)
EXTENDS ChatTurn, Retrieval, Generation, FiniteSetTheorems, TLAPS

(* A request has an answer from its start on, and it has a row.            *)
HaveAnswers ==
  \A r \in Requests :
    /\ step[r] \in Generating \union {"unslotted", "dropping"} => answer[r] # None
    /\ step[r] \in {"new", "begun"} => answer[r] = None
    /\ answer[r] # None => status[answer[r]] # "none"

(* The answer of a turn that goes on belongs to no other request.          *)
Open == {"unslotted"} \union (Generating \ {"telling"})
OpenTurn(r) == kind[r] # "retry" /\ step[r] \in Open
TurnsAreOpen ==
  \A r \in Requests : OpenTurn(r) =>
    /\ status[answer[r]] \in {"STREAMING", "deleted"}
    /\ \A q \in Requests \ {r} : answer[q] # answer[r]

(* The answer of a retry that goes on still has the status it had before.  *)
RetriesAgree ==
  \A r \in Requests : kind[r] = "retry" =>
    /\ step[r] \notin {"unslotted", "dropping"}
    /\ step[r] \in Generating \ {"telling"} => status[answer[r]] \in {original[r], "deleted"}

(* Who is about to end its chat has ended its answer.                      *)
EndsAreOver ==
  \A r \in Requests :
    step[r] \in {"telling", "closing"} /\ answer[r] # None => status[answer[r]] # "STREAMING"

NotYetBound == \A r \in Requests : step[r] \in {"begun", "started"} => bound = None

DeletedTogether == \A a \in Answers : status[a] = "deleted" => session = "deleted"

IInv == /\ TypeOK /\ HaveAnswers /\ TurnsAreOpen /\ RetriesAgree /\ EndsAreOver
        /\ NotYetBound /\ DeletedTogether
        /\ OneAnswerAtATime /\ StopIsExact /\ StreamingIsExplained /\ CompleteHasNoError
-----------------------------------------------------------------------------
(* The invariant holds before the first request.                           *)
LEMMA IInvInit == Init => IInv
<1> SUFFICES ASSUME Init PROVE IInv
  OBVIOUS
<1> USE ConstantsAssumption DEF Init
<1>1. TypeOK
  <2>1. session \in {"none", "open", "deleted"} /\ errors \subseteq Answers /\ asked \subseteq Answers
    OBVIOUS
  <2>2. status \in [Answers -> Statuses]
    BY DEF Statuses
  <2>3. kind \in [Requests -> Kinds] /\ original \in [Requests -> Ended]
    BY DEF Kinds, Ended
  <2>4. step \in [Requests -> Steps]
    BY DEF Steps
  <2>5. answer \in [Requests -> Answers \union {None}]
    OBVIOUS
  <2>6. restarts \in 0 .. MaxRestarts
    OBVIOUS
  <2> QED
    BY <2>1, <2>2, <2>3, <2>4, <2>5, <2>6 DEF TypeOK
<1>2. HaveAnswers /\ TurnsAreOpen /\ RetriesAgree /\ EndsAreOver /\ NotYetBound
  BY DEF HaveAnswers, TurnsAreOpen, OpenTurn, Open, RetriesAgree, EndsAreOver,
     NotYetBound, Generating
<1>3. DeletedTogether /\ StopIsExact /\ StreamingIsExplained /\ CompleteHasNoError
  BY DEF DeletedTogether, StopIsExact, StreamingIsExplained, CompleteHasNoError
<1>4. OneAnswerAtATime
  BY DEF OneAnswerAtATime, Owns, Holding, Generating
<1> QED
  BY <1>1, <1>2, <1>3, <1>4 DEF IInv

(* BeginChat keeps the invariant of the turns.                             *)
LEMMA BeginChatKeepsIInv == ASSUME IInv, NEW r \in Requests, BeginChat(r) PROVE IInv'
<1> USE ConstantsAssumption DEF IInv, TypeOK, BeginChat, rows, chats, Started, Others, Take, Go,
      Generating, Holding, Steps, Statuses, Ended, Kinds
<1>1. TypeOK'
  OBVIOUS
<1>2. HaveAnswers'
  BY DEF HaveAnswers
<1>3. TurnsAreOpen'
  BY DEF TurnsAreOpen, OpenTurn, Open
<1>4. RetriesAgree'
  BY DEF RetriesAgree
<1>5. EndsAreOver'
  BY DEF EndsAreOver
<1>6. NotYetBound'
  BY DEF NotYetBound
<1>7. DeletedTogether'
  BY DEF DeletedTogether
<1>8. OneAnswerAtATime'
  BY DEF OneAnswerAtATime, Owns
<1>9. StopIsExact'
  BY DEF StopIsExact
<1>10. StreamingIsExplained'
  BY DEF StreamingIsExplained, Explains
<1>11. CompleteHasNoError'
  BY DEF CompleteHasNoError
<1> QED
  BY <1>1, <1>2, <1>3, <1>4, <1>5, <1>6, <1>7, <1>8, <1>9, <1>10, <1>11

(* StartTurn keeps the invariant of the turns.                             *)
LEMMA StartTurnKeepsIInv == ASSUME IInv, NEW r \in Requests, StartTurn(r) PROVE IInv'
<1> USE ConstantsAssumption DEF IInv, TypeOK, StartTurn, rows, chats, Started, Others, SaveTurn, Go, Writable,
      Generating, Holding, Steps, Statuses, Ended, Kinds
<1>1. TypeOK'
  OBVIOUS
<1>2. HaveAnswers'
  BY DEF HaveAnswers
<1>3. TurnsAreOpen'
  BY DEF TurnsAreOpen, OpenTurn, Open, HaveAnswers, OneAnswerAtATime, Owns
<1>4. RetriesAgree'
  BY DEF RetriesAgree
<1>5. EndsAreOver'
  BY DEF EndsAreOver, HaveAnswers, OneAnswerAtATime, Owns
<1>6. NotYetBound'
  BY DEF NotYetBound
<1>7. DeletedTogether'
  BY DEF DeletedTogether
<1>8. OneAnswerAtATime'
  BY DEF OneAnswerAtATime, Owns
<1>9. StopIsExact'
  BY DEF StopIsExact
<1>10. StreamingIsExplained'
  BY DEF StreamingIsExplained, Explains
<1>11. CompleteHasNoError'
  BY DEF CompleteHasNoError
<1> QED
  BY <1>1, <1>2, <1>3, <1>4, <1>5, <1>6, <1>7, <1>8, <1>9, <1>10, <1>11

(* StartSession keeps the invariant of the turns.                          *)
LEMMA StartSessionKeepsIInv == ASSUME IInv, NEW r \in Requests, StartSession(r) PROVE IInv'
<1> USE ConstantsAssumption DEF IInv, TypeOK, StartSession, rows, chats, Started, Others, SaveTurn, Go,
      Generating, Holding, Steps, Statuses, Ended, Kinds
<1>1. TypeOK'
  OBVIOUS
<1>2. HaveAnswers'
  BY DEF HaveAnswers
<1>3. TurnsAreOpen'
  BY DEF TurnsAreOpen, OpenTurn, Open, HaveAnswers, OneAnswerAtATime, Owns
<1>4. RetriesAgree'
  BY DEF RetriesAgree
<1>5. EndsAreOver'
  BY DEF EndsAreOver, HaveAnswers, OneAnswerAtATime, Owns
<1>6. NotYetBound'
  BY DEF NotYetBound
<1>7. DeletedTogether'
  BY DEF DeletedTogether
<1>8. OneAnswerAtATime'
  BY DEF OneAnswerAtATime, Owns
<1>9. StopIsExact'
  BY DEF StopIsExact
<1>10. StreamingIsExplained'
  BY DEF StreamingIsExplained, Explains
<1>11. CompleteHasNoError'
  BY DEF CompleteHasNoError
<1> QED
  BY <1>1, <1>2, <1>3, <1>4, <1>5, <1>6, <1>7, <1>8, <1>9, <1>10, <1>11

(* BeginChatLate keeps the invariant of the turns.                         *)
LEMMA BeginChatLateKeepsIInv == ASSUME IInv, NEW r \in Requests, BeginChatLate(r) PROVE IInv'
<1> USE ConstantsAssumption DEF IInv, TypeOK, BeginChatLate, rows, chats, Started, Others, Take, Go,
      Generating, Holding, Steps, Statuses, Ended, Kinds
<1>1. TypeOK'
  OBVIOUS
<1>2. HaveAnswers'
  BY DEF HaveAnswers
<1>3. TurnsAreOpen'
  BY DEF TurnsAreOpen, OpenTurn, Open
<1>4. RetriesAgree'
  BY DEF RetriesAgree
<1>5. EndsAreOver'
  BY DEF EndsAreOver
<1>6. NotYetBound'
  BY DEF NotYetBound
<1>7. DeletedTogether'
  BY DEF DeletedTogether
<1>8. OneAnswerAtATime'
  BY DEF OneAnswerAtATime, Owns
<1>9. StopIsExact'
  BY DEF StopIsExact
<1>10. StreamingIsExplained'
  BY DEF StreamingIsExplained, Explains
<1>11. CompleteHasNoError'
  BY DEF CompleteHasNoError
<1> QED
  BY <1>1, <1>2, <1>3, <1>4, <1>5, <1>6, <1>7, <1>8, <1>9, <1>10, <1>11

(* PrepareRetry keeps the invariant of the turns.                          *)
LEMMA PrepareRetryKeepsIInv == ASSUME IInv, NEW r \in Requests, PrepareRetry(r) PROVE IInv'
<1> USE ConstantsAssumption DEF IInv, TypeOK, PrepareRetry, rows, chats, Started, Others, Go, Writable,
      Generating, Holding, Steps, Statuses, Ended, Kinds
<1>1. TypeOK'
  OBVIOUS
<1>2. HaveAnswers'
  BY DEF HaveAnswers
<1>3. TurnsAreOpen'
  BY DEF TurnsAreOpen, OpenTurn, Open
<1>4. RetriesAgree'
  BY DEF RetriesAgree
<1>5. EndsAreOver'
  BY DEF EndsAreOver
<1>6. NotYetBound'
  BY DEF NotYetBound
<1>7. DeletedTogether'
  BY DEF DeletedTogether
<1>8. OneAnswerAtATime'
  BY DEF OneAnswerAtATime, Owns
<1>9. StopIsExact'
  BY DEF StopIsExact
<1>10. StreamingIsExplained'
  BY DEF StreamingIsExplained, Explains
<1>11. CompleteHasNoError'
  BY DEF CompleteHasNoError
<1> QED
  BY <1>1, <1>2, <1>3, <1>4, <1>5, <1>6, <1>7, <1>8, <1>9, <1>10, <1>11

(* RefuseStart keeps the invariant of the turns.                           *)
LEMMA RefuseStartKeepsIInv == ASSUME IInv, NEW r \in Requests, RefuseStart(r) PROVE IInv'
<1> USE ConstantsAssumption DEF IInv, TypeOK, RefuseStart, rows, chats, Started, Others, Go,
      Generating, Holding, Steps, Statuses, Ended, Kinds
<1>1. TypeOK'
  OBVIOUS
<1>2. HaveAnswers'
  BY DEF HaveAnswers
<1>3. TurnsAreOpen'
  BY DEF TurnsAreOpen, OpenTurn, Open
<1>4. RetriesAgree'
  BY DEF RetriesAgree
<1>5. EndsAreOver'
  BY DEF EndsAreOver, HaveAnswers, OneAnswerAtATime, Owns
<1>6. NotYetBound'
  BY DEF NotYetBound
<1>7. DeletedTogether'
  BY DEF DeletedTogether
<1>8. OneAnswerAtATime'
  BY DEF OneAnswerAtATime, Owns
<1>9. StopIsExact'
  BY DEF StopIsExact
<1>10. StreamingIsExplained'
  BY DEF StreamingIsExplained, Explains
<1>11. CompleteHasNoError'
  BY DEF CompleteHasNoError
<1> QED
  BY <1>1, <1>2, <1>3, <1>4, <1>5, <1>6, <1>7, <1>8, <1>9, <1>10, <1>11

(* Bind keeps the invariant of the turns.                                  *)
LEMMA BindKeepsIInv == ASSUME IInv, NEW r \in Requests, Bind(r) PROVE IInv'
<1> USE ConstantsAssumption DEF IInv, TypeOK, Bind, rows, chats, Started, Others, Go,
      Generating, Holding, Steps, Statuses, Ended, Kinds
<1>1. TypeOK'
  OBVIOUS
<1>2. HaveAnswers'
  BY DEF HaveAnswers
<1>3. TurnsAreOpen'
  BY DEF TurnsAreOpen, OpenTurn, Open
<1>4. RetriesAgree'
  BY DEF RetriesAgree
<1>5. EndsAreOver'
  BY DEF EndsAreOver
<1>6. NotYetBound'
  BY SMTT(60) DEF NotYetBound, HaveAnswers, OneAnswerAtATime, Owns
<1>7. DeletedTogether'
  BY DEF DeletedTogether
<1>8. OneAnswerAtATime'
  BY DEF OneAnswerAtATime, Owns
<1>9. StopIsExact'
  BY DEF StopIsExact, NotYetBound
<1>10. StreamingIsExplained'
  BY DEF StreamingIsExplained, Explains
<1>11. CompleteHasNoError'
  BY DEF CompleteHasNoError
<1> QED
  BY <1>1, <1>2, <1>3, <1>4, <1>5, <1>6, <1>7, <1>8, <1>9, <1>10, <1>11

(* Vanish keeps the invariant of the turns.                                *)
LEMMA VanishKeepsIInv == ASSUME IInv, NEW r \in Requests, Vanish(r) PROVE IInv'
<1> USE ConstantsAssumption DEF IInv, TypeOK, Vanish, rows, chats, Started, Others, Go,
      Generating, Holding, Steps, Statuses, Ended, Kinds
<1>1. TypeOK'
  OBVIOUS
<1>2. HaveAnswers'
  BY DEF HaveAnswers
<1>3. TurnsAreOpen'
  BY DEF TurnsAreOpen, OpenTurn, Open
<1>4. RetriesAgree'
  BY DEF RetriesAgree
<1>5. EndsAreOver'
  BY DEF EndsAreOver
<1>6. NotYetBound'
  BY DEF NotYetBound
<1>7. DeletedTogether'
  BY DEF DeletedTogether
<1>8. OneAnswerAtATime'
  BY DEF OneAnswerAtATime, Owns
<1>9. StopIsExact'
  BY DEF StopIsExact
<1>10. StreamingIsExplained'
  BY DEF StreamingIsExplained, Explains
<1>11. CompleteHasNoError'
  BY DEF CompleteHasNoError
<1> QED
  BY <1>1, <1>2, <1>3, <1>4, <1>5, <1>6, <1>7, <1>8, <1>9, <1>10, <1>11

(* Greet keeps the invariant of the turns.                                 *)
LEMMA GreetKeepsIInv == ASSUME IInv, NEW r \in Requests, Greet(r) PROVE IInv'
<1> USE ConstantsAssumption DEF IInv, TypeOK, Greet, rows, chats, Started, Others, Go,
      Generating, Holding, Steps, Statuses, Ended, Kinds
<1>1. TypeOK'
  OBVIOUS
<1>2. HaveAnswers'
  BY DEF HaveAnswers
<1>3. TurnsAreOpen'
  BY DEF TurnsAreOpen, OpenTurn, Open
<1>4. RetriesAgree'
  BY DEF RetriesAgree
<1>5. EndsAreOver'
  BY DEF EndsAreOver
<1>6. NotYetBound'
  BY DEF NotYetBound
<1>7. DeletedTogether'
  BY DEF DeletedTogether
<1>8. OneAnswerAtATime'
  BY DEF OneAnswerAtATime, Owns
<1>9. StopIsExact'
  BY DEF StopIsExact
<1>10. StreamingIsExplained'
  BY DEF StreamingIsExplained, Explains
<1>11. CompleteHasNoError'
  BY DEF CompleteHasNoError
<1> QED
  BY <1>1, <1>2, <1>3, <1>4, <1>5, <1>6, <1>7, <1>8, <1>9, <1>10, <1>11

(* SeeStop keeps the invariant of the turns.                               *)
LEMMA SeeStopKeepsIInv == ASSUME IInv, NEW r \in Requests, SeeStop(r) PROVE IInv'
<1> USE ConstantsAssumption DEF IInv, TypeOK, SeeStop, rows, chats, Started, Others, Go, FinishAssistant, FailRetry, Writable,
      Generating, Holding, Steps, Statuses, Ended, Kinds
<1>1. TypeOK'
  BY DEF HaveAnswers
<1>2. HaveAnswers'
  BY DEF HaveAnswers
<1>3. TurnsAreOpen'
  BY DEF TurnsAreOpen, OpenTurn, Open, HaveAnswers, OneAnswerAtATime, Owns
<1>4. RetriesAgree'
  BY DEF RetriesAgree, HaveAnswers, OneAnswerAtATime, Owns
<1>5. EndsAreOver'
  BY SMTT(60) DEF EndsAreOver, HaveAnswers, OneAnswerAtATime, Owns, TurnsAreOpen, OpenTurn, Open, RetriesAgree
<1>6. NotYetBound'
  BY DEF NotYetBound
<1>7. DeletedTogether'
  BY DEF DeletedTogether
<1>8. OneAnswerAtATime'
  BY DEF OneAnswerAtATime, Owns
<1>9. StopIsExact'
  BY DEF StopIsExact
<1>10. StreamingIsExplained'
  BY DEF StreamingIsExplained, Explains
<1>11. CompleteHasNoError'
  BY DEF CompleteHasNoError
<1> QED
  BY <1>1, <1>2, <1>3, <1>4, <1>5, <1>6, <1>7, <1>8, <1>9, <1>10, <1>11

(* Produce keeps the invariant of the turns.                               *)
LEMMA ProduceKeepsIInv == ASSUME IInv, NEW r \in Requests, Produce(r) PROVE IInv'
<1> USE ConstantsAssumption DEF IInv, TypeOK, Produce, rows, chats, Started, Others, Go,
      Generating, Holding, Steps, Statuses, Ended, Kinds
<1>1. TypeOK'
  OBVIOUS
<1>2. HaveAnswers'
  BY DEF HaveAnswers
<1>3. TurnsAreOpen'
  BY DEF TurnsAreOpen, OpenTurn, Open
<1>4. RetriesAgree'
  BY DEF RetriesAgree
<1>5. EndsAreOver'
  BY DEF EndsAreOver
<1>6. NotYetBound'
  BY DEF NotYetBound
<1>7. DeletedTogether'
  BY DEF DeletedTogether
<1>8. OneAnswerAtATime'
  BY DEF OneAnswerAtATime, Owns
<1>9. StopIsExact'
  BY DEF StopIsExact
<1>10. StreamingIsExplained'
  BY DEF StreamingIsExplained, Explains
<1>11. CompleteHasNoError'
  BY DEF CompleteHasNoError
<1> QED
  BY <1>1, <1>2, <1>3, <1>4, <1>5, <1>6, <1>7, <1>8, <1>9, <1>10, <1>11

(* Raise keeps the invariant of the turns.                                 *)
LEMMA RaiseKeepsIInv == ASSUME IInv, NEW r \in Requests, Raise(r) PROVE IInv'
<1> USE ConstantsAssumption DEF IInv, TypeOK, Raise, rows, chats, Started, Others, Go,
      Generating, Holding, Steps, Statuses, Ended, Kinds
<1>1. TypeOK'
  OBVIOUS
<1>2. HaveAnswers'
  BY DEF HaveAnswers
<1>3. TurnsAreOpen'
  BY DEF TurnsAreOpen, OpenTurn, Open
<1>4. RetriesAgree'
  BY DEF RetriesAgree
<1>5. EndsAreOver'
  BY DEF EndsAreOver
<1>6. NotYetBound'
  BY DEF NotYetBound
<1>7. DeletedTogether'
  BY DEF DeletedTogether
<1>8. OneAnswerAtATime'
  BY DEF OneAnswerAtATime, Owns
<1>9. StopIsExact'
  BY DEF StopIsExact
<1>10. StreamingIsExplained'
  BY DEF StreamingIsExplained, Explains
<1>11. CompleteHasNoError'
  BY DEF CompleteHasNoError
<1> QED
  BY <1>1, <1>2, <1>3, <1>4, <1>5, <1>6, <1>7, <1>8, <1>9, <1>10, <1>11

(* Complete keeps the invariant of the turns.                              *)
LEMMA CompleteKeepsIInv == ASSUME IInv, NEW r \in Requests, Complete(r) PROVE IInv'
<1> USE ConstantsAssumption DEF IInv, TypeOK, Complete, rows, chats, Started, Others, Go, FinishAssistant, Writable,
      Generating, Holding, Steps, Statuses, Ended, Kinds
<1>1. TypeOK'
  OBVIOUS
<1>2. HaveAnswers'
  BY DEF HaveAnswers
<1>3. TurnsAreOpen'
  BY DEF TurnsAreOpen, OpenTurn, Open, HaveAnswers, OneAnswerAtATime, Owns
<1>4. RetriesAgree'
  BY DEF RetriesAgree, HaveAnswers, OneAnswerAtATime, Owns
<1>5. EndsAreOver'
  BY DEF EndsAreOver
<1>6. NotYetBound'
  BY DEF NotYetBound
<1>7. DeletedTogether'
  BY DEF DeletedTogether
<1>8. OneAnswerAtATime'
  BY DEF OneAnswerAtATime, Owns
<1>9. StopIsExact'
  BY DEF StopIsExact
<1>10. StreamingIsExplained'
  BY DEF StreamingIsExplained, Explains
<1>11. CompleteHasNoError'
  BY DEF CompleteHasNoError
<1> QED
  BY <1>1, <1>2, <1>3, <1>4, <1>5, <1>6, <1>7, <1>8, <1>9, <1>10, <1>11

(* Fail keeps the invariant of the turns.                                  *)
LEMMA FailKeepsIInv == ASSUME IInv, NEW r \in Requests, Fail(r) PROVE IInv'
<1> USE ConstantsAssumption DEF IInv, TypeOK, Fail, rows, chats, Started, Others, Go, FinishAssistant, FailRetry, Writable,
      Generating, Holding, Steps, Statuses, Ended, Kinds
<1>1. TypeOK'
  BY DEF HaveAnswers
<1>2. HaveAnswers'
  BY DEF HaveAnswers
<1>3. TurnsAreOpen'
  BY DEF TurnsAreOpen, OpenTurn, Open, HaveAnswers, OneAnswerAtATime, Owns
<1>4. RetriesAgree'
  BY DEF RetriesAgree, HaveAnswers, OneAnswerAtATime, Owns
<1>5. EndsAreOver'
  BY SMTT(60) DEF EndsAreOver, HaveAnswers, OneAnswerAtATime, Owns, TurnsAreOpen, OpenTurn, Open, RetriesAgree
<1>6. NotYetBound'
  BY DEF NotYetBound
<1>7. DeletedTogether'
  BY DEF DeletedTogether
<1>8. OneAnswerAtATime'
  BY DEF OneAnswerAtATime, Owns
<1>9. StopIsExact'
  BY DEF StopIsExact
<1>10. StreamingIsExplained'
  BY DEF StreamingIsExplained, Explains
<1>11. CompleteHasNoError'
  BY DEF CompleteHasNoError
<1> QED
  BY <1>1, <1>2, <1>3, <1>4, <1>5, <1>6, <1>7, <1>8, <1>9, <1>10, <1>11

(* Disconnect keeps the invariant of the turns.                            *)
LEMMA DisconnectKeepsIInv == ASSUME IInv, NEW r \in Requests, Disconnect(r) PROVE IInv'
<1> USE ConstantsAssumption DEF IInv, TypeOK, Disconnect, rows, chats, Started, Others, Go, FinishAssistant, Writable,
      Generating, Holding, Steps, Statuses, Ended, Kinds
<1>1. TypeOK'
  BY DEF HaveAnswers
<1>2. HaveAnswers'
  BY DEF HaveAnswers
<1>3. TurnsAreOpen'
  BY DEF TurnsAreOpen, OpenTurn, Open, HaveAnswers, OneAnswerAtATime, Owns
<1>4. RetriesAgree'
  BY DEF RetriesAgree, HaveAnswers, OneAnswerAtATime, Owns
<1>5. EndsAreOver'
  BY SMTT(60) DEF EndsAreOver, HaveAnswers, OneAnswerAtATime, Owns, TurnsAreOpen, OpenTurn, Open, RetriesAgree
<1>6. NotYetBound'
  BY DEF NotYetBound
<1>7. DeletedTogether'
  BY DEF DeletedTogether
<1>8. OneAnswerAtATime'
  BY DEF OneAnswerAtATime, Owns
<1>9. StopIsExact'
  BY DEF StopIsExact
<1>10. StreamingIsExplained'
  BY DEF StreamingIsExplained, Explains
<1>11. CompleteHasNoError'
  BY DEF CompleteHasNoError
<1> QED
  BY <1>1, <1>2, <1>3, <1>4, <1>5, <1>6, <1>7, <1>8, <1>9, <1>10, <1>11

(* Deliver keeps the invariant of the turns.                               *)
LEMMA DeliverKeepsIInv == ASSUME IInv, NEW r \in Requests, Deliver(r) PROVE IInv'
<1> USE ConstantsAssumption DEF IInv, TypeOK, Deliver, rows, chats, Started, Others, Go,
      Generating, Holding, Steps, Statuses, Ended, Kinds
<1>1. TypeOK'
  OBVIOUS
<1>2. HaveAnswers'
  BY DEF HaveAnswers
<1>3. TurnsAreOpen'
  BY DEF TurnsAreOpen, OpenTurn, Open
<1>4. RetriesAgree'
  BY DEF RetriesAgree
<1>5. EndsAreOver'
  BY DEF EndsAreOver
<1>6. NotYetBound'
  BY DEF NotYetBound
<1>7. DeletedTogether'
  BY DEF DeletedTogether
<1>8. OneAnswerAtATime'
  BY DEF OneAnswerAtATime, Owns
<1>9. StopIsExact'
  BY DEF StopIsExact
<1>10. StreamingIsExplained'
  BY SMTT(60) DEF StreamingIsExplained, Explains, HaveAnswers, OneAnswerAtATime, Owns, EndsAreOver, RetriesAgree
<1>11. CompleteHasNoError'
  BY DEF CompleteHasNoError
<1> QED
  BY <1>1, <1>2, <1>3, <1>4, <1>5, <1>6, <1>7, <1>8, <1>9, <1>10, <1>11

(* EndChat keeps the invariant of the turns.                               *)
LEMMA EndChatKeepsIInv == ASSUME IInv, NEW r \in Requests, EndChat(r) PROVE IInv'
<1> USE ConstantsAssumption DEF IInv, TypeOK, EndChat, rows, chats, Started, Others, Go, Free,
      Generating, Holding, Steps, Statuses, Ended, Kinds
<1>1. TypeOK'
  OBVIOUS
<1>2. HaveAnswers'
  BY DEF HaveAnswers
<1>3. TurnsAreOpen'
  BY DEF TurnsAreOpen, OpenTurn, Open, HaveAnswers, OneAnswerAtATime, Owns
<1>4. RetriesAgree'
  BY DEF RetriesAgree
<1>5. EndsAreOver'
  BY DEF EndsAreOver
<1>6. NotYetBound'
  BY DEF NotYetBound
<1>7. DeletedTogether'
  BY DEF DeletedTogether
<1>8. OneAnswerAtATime'
  BY DEF OneAnswerAtATime, Owns
<1>9. StopIsExact'
  BY DEF StopIsExact
<1>10. StreamingIsExplained'
  BY DEF StreamingIsExplained, Explains
<1>11. CompleteHasNoError'
  BY DEF CompleteHasNoError
<1> QED
  BY <1>1, <1>2, <1>3, <1>4, <1>5, <1>6, <1>7, <1>8, <1>9, <1>10, <1>11

(* CheckStop keeps the invariant of the turns.                             *)
LEMMA CheckStopKeepsIInv == ASSUME IInv, NEW a \in Answers, CheckStop(a) PROVE IInv'
<1> USE ConstantsAssumption DEF IInv, TypeOK, CheckStop, rows, chats, Started, Others,
      Generating, Holding, Steps, Statuses, Ended, Kinds
<1>1. TypeOK'
  OBVIOUS
<1>2. HaveAnswers'
  BY DEF HaveAnswers
<1>3. TurnsAreOpen'
  BY DEF TurnsAreOpen, OpenTurn, Open
<1>4. RetriesAgree'
  BY DEF RetriesAgree
<1>5. EndsAreOver'
  BY DEF EndsAreOver
<1>6. NotYetBound'
  BY DEF NotYetBound
<1>7. DeletedTogether'
  BY DEF DeletedTogether
<1>8. OneAnswerAtATime'
  BY DEF OneAnswerAtATime, Owns
<1>9. StopIsExact'
  BY DEF StopIsExact
<1>10. StreamingIsExplained'
  BY DEF StreamingIsExplained, Explains
<1>11. CompleteHasNoError'
  BY DEF CompleteHasNoError
<1> QED
  BY <1>1, <1>2, <1>3, <1>4, <1>5, <1>6, <1>7, <1>8, <1>9, <1>10, <1>11

(* RequestStop keeps the invariant of the turns.                           *)
LEMMA RequestStopKeepsIInv == ASSUME IInv, NEW a \in Answers, RequestStop(a) PROVE IInv'
<1> USE ConstantsAssumption DEF IInv, TypeOK, RequestStop, rows, chats, Started, Others,
      Generating, Holding, Steps, Statuses, Ended, Kinds
<1>1. TypeOK'
  OBVIOUS
<1>2. HaveAnswers'
  BY DEF HaveAnswers
<1>3. TurnsAreOpen'
  BY DEF TurnsAreOpen, OpenTurn, Open
<1>4. RetriesAgree'
  BY DEF RetriesAgree
<1>5. EndsAreOver'
  BY DEF EndsAreOver
<1>6. NotYetBound'
  BY DEF NotYetBound
<1>7. DeletedTogether'
  BY DEF DeletedTogether
<1>8. OneAnswerAtATime'
  BY DEF OneAnswerAtATime, Owns
<1>9. StopIsExact'
  BY DEF StopIsExact
<1>10. StreamingIsExplained'
  BY DEF StreamingIsExplained, Explains
<1>11. CompleteHasNoError'
  BY DEF CompleteHasNoError
<1> QED
  BY <1>1, <1>2, <1>3, <1>4, <1>5, <1>6, <1>7, <1>8, <1>9, <1>10, <1>11

(* CheckIdle keeps the invariant of the turns.                             *)
LEMMA CheckIdleKeepsIInv == ASSUME IInv, CheckIdle PROVE IInv'
<1> USE ConstantsAssumption DEF IInv, TypeOK, CheckIdle, rows, chats, Started, Others,
      Generating, Holding, Steps, Statuses, Ended, Kinds
<1>1. TypeOK'
  OBVIOUS
<1>2. HaveAnswers'
  BY DEF HaveAnswers
<1>3. TurnsAreOpen'
  BY DEF TurnsAreOpen, OpenTurn, Open
<1>4. RetriesAgree'
  BY DEF RetriesAgree
<1>5. EndsAreOver'
  BY DEF EndsAreOver
<1>6. NotYetBound'
  BY DEF NotYetBound
<1>7. DeletedTogether'
  BY DEF DeletedTogether
<1>8. OneAnswerAtATime'
  BY DEF OneAnswerAtATime, Owns
<1>9. StopIsExact'
  BY DEF StopIsExact
<1>10. StreamingIsExplained'
  BY DEF StreamingIsExplained, Explains
<1>11. CompleteHasNoError'
  BY DEF CompleteHasNoError
<1> QED
  BY <1>1, <1>2, <1>3, <1>4, <1>5, <1>6, <1>7, <1>8, <1>9, <1>10, <1>11

(* DeleteSession keeps the invariant of the turns.                         *)
LEMMA DeleteSessionKeepsIInv == ASSUME IInv, DeleteSession PROVE IInv'
<1> USE ConstantsAssumption DEF IInv, TypeOK, DeleteSession, rows, chats, Started, Others,
      Generating, Holding, Steps, Statuses, Ended, Kinds
<1>1. TypeOK'
  OBVIOUS
<1>2. HaveAnswers'
  BY DEF HaveAnswers
<1>3. TurnsAreOpen'
  BY DEF TurnsAreOpen, OpenTurn, Open, HaveAnswers, OneAnswerAtATime, Owns
<1>4. RetriesAgree'
  BY DEF RetriesAgree, HaveAnswers, OneAnswerAtATime, Owns
<1>5. EndsAreOver'
  BY DEF EndsAreOver
<1>6. NotYetBound'
  BY DEF NotYetBound
<1>7. DeletedTogether'
  BY DEF DeletedTogether
<1>8. OneAnswerAtATime'
  BY DEF OneAnswerAtATime, Owns
<1>9. StopIsExact'
  BY DEF StopIsExact
<1>10. StreamingIsExplained'
  BY DEF StreamingIsExplained, Explains
<1>11. CompleteHasNoError'
  BY DEF CompleteHasNoError
<1> QED
  BY <1>1, <1>2, <1>3, <1>4, <1>5, <1>6, <1>7, <1>8, <1>9, <1>10, <1>11

(* Rebuild keeps the invariant of the turns.                               *)
LEMMA RebuildKeepsIInv == ASSUME IInv, Rebuild PROVE IInv'
<1> USE ConstantsAssumption DEF IInv, TypeOK, Rebuild, rows, chats, Started, Others,
      Generating, Holding, Steps, Statuses, Ended, Kinds
<1>1. TypeOK'
  OBVIOUS
<1>2. HaveAnswers'
  BY DEF HaveAnswers
<1>3. TurnsAreOpen'
  BY DEF TurnsAreOpen, OpenTurn, Open
<1>4. RetriesAgree'
  BY DEF RetriesAgree
<1>5. EndsAreOver'
  BY DEF EndsAreOver
<1>6. NotYetBound'
  BY DEF NotYetBound
<1>7. DeletedTogether'
  BY DEF DeletedTogether
<1>8. OneAnswerAtATime'
  BY DEF OneAnswerAtATime, Owns
<1>9. StopIsExact'
  BY DEF StopIsExact
<1>10. StreamingIsExplained'
  BY DEF StreamingIsExplained, Explains
<1>11. CompleteHasNoError'
  BY DEF CompleteHasNoError
<1> QED
  BY <1>1, <1>2, <1>3, <1>4, <1>5, <1>6, <1>7, <1>8, <1>9, <1>10, <1>11

(* Restart keeps the invariant of the turns.                               *)
LEMMA RestartKeepsIInv == ASSUME IInv, Restart PROVE IInv'
<1> USE ConstantsAssumption DEF IInv, TypeOK, Restart, rows, chats, Started, Others, Free,
      Generating, Holding, Steps, Statuses, Ended, Kinds
<1>1. TypeOK'
  <2>1. status' \in [Answers -> Statuses]
    OBVIOUS
  <2>2. step' \in [Requests -> Steps]
    OBVIOUS
  <2>3. kind' \in [Requests -> Kinds] /\ original' \in [Requests -> Ended]
    OBVIOUS
  <2>4. answer' \in [Requests -> Answers \union {None}] /\ errors' \subseteq Answers
    OBVIOUS
  <2>5. restarts' \in 0 .. MaxRestarts
    OBVIOUS
  <2> QED
    BY <2>1, <2>2, <2>3, <2>4, <2>5
<1>2. HaveAnswers'
  BY DEF HaveAnswers
<1>3. TurnsAreOpen'
  BY DEF TurnsAreOpen, OpenTurn, Open
<1>4. RetriesAgree'
  BY DEF RetriesAgree
<1>5. EndsAreOver'
  BY DEF EndsAreOver
<1>6. NotYetBound'
  BY DEF NotYetBound
<1>7. DeletedTogether'
  BY DEF DeletedTogether
<1>8. OneAnswerAtATime'
  BY DEF OneAnswerAtATime, Owns
<1>9. StopIsExact'
  BY DEF StopIsExact
<1>10. StreamingIsExplained'
  BY DEF StreamingIsExplained, Explains
<1>11. CompleteHasNoError'
  BY DEF CompleteHasNoError
<1> QED
  BY <1>1, <1>2, <1>3, <1>4, <1>5, <1>6, <1>7, <1>8, <1>9, <1>10, <1>11

-----------------------------------------------------------------------------
(* Every step keeps IInv, one lemma per action.                            *)
LEMMA IInvStep == IInv /\ [Next]_vars => IInv'
<1> SUFFICES ASSUME IInv, [Next]_vars PROVE IInv'
  OBVIOUS
<1>1. CASE UNCHANGED vars
  BY <1>1 DEF vars, IInv, TypeOK, HaveAnswers, TurnsAreOpen, OpenTurn, RetriesAgree,
     EndsAreOver, NotYetBound, DeletedTogether, OneAnswerAtATime, Owns, StopIsExact,
     StreamingIsExplained, Explains, CompleteHasNoError
<1>2. ASSUME NEW r \in Requests, GoesOn(r) PROVE IInv'
  BY <1>2, StartTurnKeepsIInv, PrepareRetryKeepsIInv, RefuseStartKeepsIInv,
     BeginChatLateKeepsIInv, BindKeepsIInv, GreetKeepsIInv, SeeStopKeepsIInv,
     ProduceKeepsIInv, RaiseKeepsIInv, CompleteKeepsIInv, FailKeepsIInv,
     DeliverKeepsIInv, EndChatKeepsIInv DEF GoesOn
<1>3. ASSUME NEW r \in Requests,
             BeginChat(r) \/ StartSession(r) \/ Vanish(r) \/ Disconnect(r)
      PROVE  IInv'
  BY <1>3, BeginChatKeepsIInv, StartSessionKeepsIInv, VanishKeepsIInv, DisconnectKeepsIInv
<1>4. ASSUME NEW a \in Answers, CheckStop(a) \/ RequestStop(a) PROVE IInv'
  BY <1>4, CheckStopKeepsIInv, RequestStopKeepsIInv
<1>5. CASE CheckIdle \/ DeleteSession \/ Rebuild \/ Restart
  BY <1>5, CheckIdleKeepsIInv, DeleteSessionKeepsIInv, RebuildKeepsIInv, RestartKeepsIInv
<1> QED
  BY <1>1, <1>2, <1>3, <1>4, <1>5 DEF Next

(* The invariant holds of every reachable state.                           *)
LEMMA IInvariance == Spec => []IInv
<1> QED
  BY IInvInit, IInvStep, PTL DEF Spec

(* Types, among them that a retry only starts from an answer that is over  *)
(* (prepare_retry).                                                        *)
THEOREM TypeCorrect == Spec => []TypeOK
<1>1. IInv => TypeOK
  BY DEF IInv
<1> QED
  BY <1>1, IInvariance, PTL

(* begin_chat and end_chat give a session to one request at a time, also   *)
(* when a first question begins its chat after its rows were committed.    *)
THEOREM AnswersComeOneAtATime == Spec => []OneAnswerAtATime
<1>1. IInv => OneAnswerAtATime
  BY DEF IInv
<1> QED
  BY <1>1, IInvariance, PTL

(* A stop request, however late it reaches the table, only stops the       *)
(* answer it was checked for (request_chat_cancel).                        *)
THEOREM StopsAreExact == Spec => []StopIsExact
<1>1. IInv => StopIsExact
  BY DEF IInv
<1> QED
  BY <1>1, IInvariance, PTL

(* Only three ways lead to an answer that stays STREAMING (chat.py and     *)
(* recover_incomplete_messages).                                           *)
THEOREM NoOtherAnswerIsStuck == Spec => []StreamingIsExplained
<1>1. IInv => StreamingIsExplained
  BY DEF IInv
<1> QED
  BY <1>1, IInvariance, PTL

(* fail_retry leaves a complete answer without an error.                   *)
THEOREM CompleteShowsNoError == Spec => []CompleteHasNoError
<1>1. IInv => CompleteHasNoError
  BY DEF IInv
<1> QED
  BY <1>1, IInvariance, PTL
-----------------------------------------------------------------------------
Kept == \A a \in Answers : status[a] = "COMPLETE" /\ ~BeingTold(a)
          => status'[a] \in {"COMPLETE", "deleted"}

(* The end of a turn only ever overwrites STREAMING, or an answer that is  *)
(* being told; the end of a retry gives the status back that it found.     *)
LEMMA RequestKeeps ==
  ASSUME IInv, NEW r \in Requests, NEW s \in Ended, NEW after, NEW refusal,
         answer[r] \in Answers,
         \/ s = "COMPLETE"
         \/ status[answer[r]] # "COMPLETE"
         \/ BeingTold(answer[r]),
         FinishAssistant(r, s, after, refusal)
  PROVE  Kept
BY DEF IInv, TypeOK, Kept, FinishAssistant, rows, BeingTold

(* A retry that fails puts back the status its answer had.                 *)
LEMMA FailRetryKeeps ==
  ASSUME IInv, NEW r \in Requests, kind[r] = "retry", step[r] \in {"working", "failing"},
         FailRetry(r)
  PROVE  Kept
BY DEF IInv, TypeOK, Kept, FailRetry, RetriesAgree, DeletedTogether, HaveAnswers, Generating

(* The answer of a turn that goes on is not complete yet.                  *)
LEMMA TurnIsNotComplete ==
  ASSUME IInv, NEW r \in Requests, kind[r] # "retry",
         step[r] \in {"working", "failing"}
  PROVE  status[answer[r]] # "COMPLETE" /\ answer[r] \in Answers
BY DEF IInv, TypeOK, TurnsAreOpen, OpenTurn, Open, HaveAnswers, Generating

(* No step takes a complete answer back, unless it is being told.          *)
LEMMA StepKeeps == IInv /\ [Next]_vars => Kept
<1> SUFFICES ASSUME IInv, [Next]_vars PROVE Kept
  OBVIOUS
<1> USE DEF rows, Ended
<1>1. CASE UNCHANGED status
  BY <1>1 DEF Kept
<1>2. ASSUME NEW r \in Requests, NEW a \in Answers, SaveTurn(r, a) PROVE Kept
  BY <1>2 DEF SaveTurn, Kept, IInv, TypeOK
<1>3. ASSUME NEW r \in Requests, SeeStop(r) PROVE Kept
  BY <1>3, TurnIsNotComplete, RequestKeeps, FailRetryKeeps DEF SeeStop
<1>4. ASSUME NEW r \in Requests, Complete(r) PROVE Kept
  <2>1. answer[r] \in Answers
    BY <1>4 DEF Complete, IInv, TypeOK, HaveAnswers, Generating
  <2> QED
    BY <1>4, <2>1, RequestKeeps DEF Complete
<1>5. ASSUME NEW r \in Requests, Fail(r) PROVE Kept
  BY <1>5, TurnIsNotComplete, RequestKeeps, FailRetryKeeps DEF Fail
<1>6. ASSUME NEW r \in Requests, Disconnect(r) PROVE Kept
  <2>1. CASE step[r] = "working" /\ kind[r] = "stream"
    BY <1>6, <2>1, TurnIsNotComplete, RequestKeeps DEF Disconnect
  <2>2. CASE step[r] = "telling" /\ kind[r] = "stream"
    <3>1. answer[r] \in Answers
      BY <2>2 DEF IInv, TypeOK, HaveAnswers, Generating
    <3>2. BeingTold(answer[r])
      BY <2>2 DEF BeingTold
    <3> QED
      BY <1>6, <2>2, <3>1, <3>2, RequestKeeps DEF Disconnect
  <2>3. CASE kind[r] = "retry"
    BY <1>1, <1>6, <2>3 DEF Disconnect
  <2> QED
    BY <1>6, <2>1, <2>2, <2>3 DEF Disconnect
<1>7. CASE DeleteSession \/ Restart
  BY <1>7 DEF DeleteSession, Restart, Kept
<1>8. ASSUME NEW r \in Requests, GoesOn(r) PROVE Kept
  BY <1>1, <1>2, <1>3, <1>4, <1>5, <1>8 DEF GoesOn, StartTurn, PrepareRetry, RefuseStart,
     BeginChatLate, Bind, Greet, Produce, Raise, Deliver, EndChat
<1> QED
  BY <1>1, <1>2, <1>6, <1>7, <1>8 DEF Next, vars, BeginChat, StartSession, Vanish,
     CheckStop, RequestStop, CheckIdle, Rebuild

(* Nothing but the client of the stream that wrote it takes a complete     *)
(* answer back (complete_turn, fail_retry, recover_incomplete_messages).   *)
THEOREM CompleteStays == Spec => CompleteIsKept
<1>1. IInv /\ [Next]_vars => [Kept]_vars
  BY StepKeeps
<1> QED
  BY <1>1, IInvariance, PTL DEF Spec, CompleteIsKept, Kept
-----------------------------------------------------------------------------
(* Induction.  The library states it for an operator, which the provers    *)
(* cannot instantiate; stated for a set it follows from the fact that the  *)
(* natural numbers are well founded.                                       *)
LEMMA LeastOf ==
  ASSUME NEW T, T \subseteq Nat, T # {}
  PROVE  \E x \in T : \A y \in T : x <= y
<1> DEFINE Less == OpToRel(<, Nat)
<1>1. IsWellFoundedOn(Less, Nat)
  BY NatLessThanWellFounded
<1>2. \A x, y \in Nat : x < y => <<x, y>> \in Less
  BY DEF OpToRel
<1> HIDE DEF Less
<1>3. PICK x \in T : \A y \in T : ~ (<<y, x>> \in Less)
  BY <1>1, WFMin
<1>4. ASSUME NEW y \in T PROVE x <= y
  <2>1. x \in Nat /\ y \in Nat
    OBVIOUS
  <2>2. ~ (y < x)
    BY <2>1, <1>2, <1>3
  <2> QED BY <2>1, <2>2
<1> QED BY <1>4

(* What holds of zero and of each successor holds of every number.         *)
LEMMA SetInduction ==
  ASSUME NEW T, 0 \in T, \A n \in Nat : n \in T => n + 1 \in T
  PROVE  \A n \in Nat : n \in T
<1> DEFINE U == {n \in Nat : n \notin T}
<1> SUFFICES ASSUME U # {} PROVE FALSE
  OBVIOUS
<1>1. U \subseteq Nat
  OBVIOUS
<1> HIDE DEF U
<1>2. PICK x \in U : \A y \in U : x <= y
  BY <1>1, LeastOf
<1> USE DEF U
<1>3. x # 0 /\ x - 1 \in Nat /\ x = (x - 1) + 1
  BY <1>2
<1>4. x - 1 \notin U
  BY <1>2, <1>3
<1>5. x - 1 \in T
  BY <1>3, <1>4
<1> QED BY <1>3, <1>5

(* A fold takes the elements of a sequence by their positions, the greatest*)
(* one last.                                                               *)
Greatest(s) == CHOOSE x \in s : \A y \in s : x >= y

(* A set of positions that is not empty has a greatest.                    *)
LEMMA GreatestIs ==
  ASSUME NEW n \in Nat, NEW s \in SUBSET (1 .. n), s # {}
  PROVE  Greatest(s) \in s /\ \A y \in s : y <= Greatest(s)
<1> DEFINE T == {z \in Nat : \E y \in s : z = n - y}
<1>1. T \subseteq Nat
  OBVIOUS
<1>2. T # {}
  <2>1. PICK y \in s : TRUE
    OBVIOUS
  <2>2. n - y \in Nat
    BY <2>1
  <2> QED BY <2>2
<1>3. PICK z \in T : \A y \in T : z <= y
  <2> HIDE DEF T
  <2> QED BY <1>1, <1>2, LeastOf
<1>4. PICK x \in s : z = n - x
  OBVIOUS
<1>5. ASSUME NEW y \in s PROVE y <= x
  <2>1. n - y \in T /\ y \in Int /\ x \in Int
    BY <1>5
  <2>2. n - x <= n - y
    BY <1>3, <1>4, <2>1
  <2> QED BY <2>1, <2>2
<1>6. \A y \in s : x >= y
  BY <1>5
<1>7. \E v \in s : \A y \in s : v >= y
  BY <1>6
<1>8. Greatest(s) \in s /\ \A y \in s : Greatest(s) >= y
  BY <1>7 DEF Greatest
<1> QED BY <1>8

(* The last position, if it is there, is the greatest.                     *)
LEMMA GreatestLast ==
  ASSUME NEW k \in Nat, NEW s \in SUBSET (1 .. k + 1)
  PROVE  /\ k + 1 \in s => Greatest(s) = k + 1 /\ s \ {k + 1} \in SUBSET (1 .. k)
         /\ k + 1 \notin s => s \in SUBSET (1 .. k)
<1>1. CASE k + 1 \in s
  <2>1. k + 1 \in Nat /\ s # {}
    BY <1>1
  <2>2. Greatest(s) \in s /\ k + 1 <= Greatest(s)
    BY <1>1, <2>1, GreatestIs
  <2>3. Greatest(s) \in 1 .. k + 1
    BY <2>2
  <2>4. Greatest(s) = k + 1
    BY <2>2, <2>3
  <2> QED BY <1>1, <2>4
<1>2. CASE k + 1 \notin s
  BY <1>2
<1> QED BY <1>1, <1>2

(* What holds of no elements, and of some if it holds without the greatest,*)
(* holds of all.                                                           *)
LEMMA PeelInduction ==
  ASSUME NEW n \in Nat, NEW A, {} \in A,
         \A s \in SUBSET (1 .. n) : s # {} /\ s \ {Greatest(s)} \in A => s \in A
  PROVE  \A s \in SUBSET (1 .. n) : s \in A
<1> DEFINE T == {k \in Nat : k <= n => \A s \in SUBSET (1 .. k) : s \in A}
<1>1. 0 \in T
  <2>1. \A s \in SUBSET (1 .. 0) : s = {}
    OBVIOUS
  <2> QED BY <2>1
<1>2. ASSUME NEW k \in Nat, k \in T, k + 1 <= n, NEW s \in SUBSET (1 .. k + 1)
      PROVE  s \in A
  <2>1. \A r \in SUBSET (1 .. k) : r \in A
    BY <1>2
  <2>2. s \in SUBSET (1 .. n)
    BY <1>2
  <2>3. CASE k + 1 \in s
    BY <1>2, <2>1, <2>2, <2>3, GreatestLast
  <2>4. CASE k + 1 \notin s
    BY <1>2, <2>1, <2>4, GreatestLast
  <2> QED BY <2>3, <2>4
<1>3. \A k \in Nat : k \in T => k + 1 \in T
  BY <1>2
<1> HIDE DEF T
<1>4. n \in T
  BY <1>1, <1>3, SetInduction
<1> QED BY <1>4 DEF T

(* A fold over the positions 1 .. n exists: of a step for each position,   *)
(* from b, within A.                                                       *)
Folds(g, b, F, n) ==
  \A s \in SUBSET (1 .. n) :
    g[s] = IF s = {} THEN b ELSE F[Greatest(s)][g[s \ {Greatest(s)}]]

(* The fold of n positions extends that of one less.                       *)
LEMMA FoldExists ==
  ASSUME NEW n \in Nat, NEW A, NEW b \in A, NEW F \in [1 .. n -> [A -> A]]
  PROVE  \E g \in [SUBSET (1 .. n) -> A] : Folds(g, b, F, n)
<1> DEFINE P(k) == \E g \in [SUBSET (1 .. k) -> A] : Folds(g, b, F, k)
<1>1. P(0)
  <2>1. [s \in SUBSET (1 .. 0) |-> b] \in [SUBSET (1 .. 0) -> A]
    OBVIOUS
  <2>2. \A s \in SUBSET (1 .. 0) : s = {}
    OBVIOUS
  <2>3. Folds([s \in SUBSET (1 .. 0) |-> b], b, F, 0)
    BY <2>2 DEF Folds
  <2> QED BY <2>1, <2>3
<1>2. ASSUME NEW k \in Nat, P(k), k + 1 <= n PROVE P(k + 1)
  <2>1. PICK g \in [SUBSET (1 .. k) -> A] : Folds(g, b, F, k)
    BY <1>2
  <2> DEFINE h == [s \in SUBSET (1 .. k + 1) |->
                     IF k + 1 \in s THEN F[k + 1][g[s \ {k + 1}]] ELSE g[s]]
  <2>2. ASSUME NEW s \in SUBSET (1 .. k + 1) PROVE h[s] \in A
    <3>1. CASE k + 1 \in s
      <4>1. g[s \ {k + 1}] \in A /\ F[k + 1] \in [A -> A]
        BY <1>2, <3>1, GreatestLast
      <4>2. h[s] = F[k + 1][g[s \ {k + 1}]]
        BY <3>1
      <4> HIDE DEF h
      <4> QED BY <4>1, <4>2
    <3>2. CASE k + 1 \notin s
      BY <3>2, GreatestLast
    <3> QED BY <3>1, <3>2
  <2>3. ASSUME NEW s \in SUBSET (1 .. k + 1)
        PROVE  h[s] = IF s = {} THEN b ELSE F[Greatest(s)][h[s \ {Greatest(s)}]]
    <3>1. CASE k + 1 \in s
      <4>1. Greatest(s) = k + 1 /\ s \ {k + 1} \in SUBSET (1 .. k)
              /\ s \ {k + 1} \in SUBSET (1 .. k + 1) /\ k + 1 \notin s \ {k + 1}
        BY <3>1, GreatestLast
      <4>2. h[s \ {k + 1}] = g[s \ {k + 1}]
        BY <4>1
      <4>3. h[s] = F[k + 1][g[s \ {k + 1}]]
        BY <3>1
      <4> HIDE DEF h
      <4> QED BY <3>1, <4>1, <4>2, <4>3
    <3>2. CASE k + 1 \notin s
      <4>1. s \in SUBSET (1 .. k)
        BY <3>2, GreatestLast
      <4>2. h[s] = g[s]
        BY <3>2
      <4>3. g[s] = IF s = {} THEN b ELSE F[Greatest(s)][g[s \ {Greatest(s)}]]
        BY <2>1, <4>1 DEF Folds
      <4>4. s \ {Greatest(s)} \in SUBSET (1 .. k + 1) /\ k + 1 \notin s \ {Greatest(s)}
        BY <3>2
      <4>5. h[s \ {Greatest(s)}] = g[s \ {Greatest(s)}]
        BY <4>4
      <4> HIDE DEF h
      <4> QED BY <4>2, <4>3, <4>5
    <3> QED BY <3>1, <3>2
  <2>4. h \in [SUBSET (1 .. k + 1) -> A]
    BY <2>2
  <2> HIDE DEF h
  <2>5. Folds(h, b, F, k + 1)
    BY <2>3 DEF Folds
  <2> QED BY <2>4, <2>5
<1> HIDE DEF P
<1> DEFINE T == {k \in Nat : k <= n => P(k)}
<1>3. 0 \in T
  BY <1>1
<1>4. \A k \in Nat : k \in T => k + 1 \in T
  BY <1>2
<1>5. n \in T
  <2> HIDE DEF T
  <2> QED BY <1>3, <1>4, SetInduction
<1>6. P(n)
  BY <1>5
<1> QED BY <1>6 DEF P

-----------------------------------------------------------------------------
(* The mode is resolved: the web is searched only with leave, and a mode   *)
(* that was not applied has a reason.                                      *)
LEMMA ResolvedIs ==
  ASSUME ask \in Questions
  PROVE  /\ Resolved # Nothing
         /\ Resolved \in Decisions
         /\ Resolved.effective # Resolved.requested => Resolved.fallback # Nothing
         /\ Resolved.effective # "knowledge_only" =>
              /\ Resolved.requested # "knowledge_only"
              /\ ask.enabled /\ ask.roleAllowed /\ ask.policy # "deny"
<1> DEFINE requested == IF ask.mode = Nothing THEN DefaultMode ELSE ask.mode
           Only(st, why) == [requested |-> requested, effective |-> "knowledge_only",
                             status |-> st, fallback |-> why]
<1>1. requested \in Modes
  BY Limits DEF Modes
<1>2. Resolved =
        CASE requested = "knowledge_only" -> Only("not_requested", Nothing)
          [] ~ask.enabled -> Only("blocked_by_policy", "global_web_search_disabled")
          [] ~ask.roleAllowed -> Only("blocked_by_policy", "role_web_search_denied")
          [] ask.policy = "deny" -> Only("blocked_by_policy", "knowledge_base_denied")
          [] OTHER -> [requested |-> requested, effective |-> requested,
                       status |-> "not_requested", fallback |-> Nothing]
  BY DEF Resolved
<1>3. Nothing \notin Reasons /\ Nothing \notin Decisions
  BY Limits
<1> HIDE DEF requested
<1>4. Resolved \in Decisions
  BY <1>1, <1>2 DEF Modes, Decisions, SearchStatuses, Reasons
<1>5. Resolved.effective # Resolved.requested => Resolved.fallback # Nothing
  BY <1>1, <1>2, <1>3 DEF Reasons
<1>6. Resolved.effective # "knowledge_only" =>
        /\ Resolved.requested # "knowledge_only"
        /\ ask.enabled /\ ask.roleAllowed /\ ask.policy # "deny"
  BY <1>2
<1> QED BY <1>3, <1>4, <1>5, <1>6

(* The selection goes through the hits and keeps to the policy.            *)
Targets == Allowed \intersect Urls
Chosen == {s \in [urls : SUBSET Targets, excluded : SUBSET {"excluded"}] :
             IsFiniteSet(s.urls)}

(* A hit is selected only at an address the policy lets pass.              *)
LEMMA ConsideredIsChosen ==
  ASSUME NEW s \in Chosen, NEW u \in Urls PROVE Considered(s, u) \in Chosen
<1>1. [s EXCEPT !.excluded = {"excluded"}] \in Chosen
  BY DEF Chosen
<1>2. ASSUME u \in Allowed PROVE [s EXCEPT !.urls = @ \union {u}] \in Chosen
  <2>1. IsFiniteSet(s.urls \union {u})
    BY FS_AddElement DEF Chosen
  <2> QED BY <1>2, <2>1 DEF Chosen, Targets
<1> QED BY <1>1, <1>2 DEF Considered

(* What selects is the function on sets of positions that unfolds so.      *)
Unfolds(g, b, q) ==
  g = [s \in SUBSET (DOMAIN q) |-> IF s = {} THEN b
         ELSE Considered(g[s \ {Greatest(s)}], q[Greatest(s)])]

(* The selection of the model is such a function.                          *)
LEMMA FoldIs ==
  ASSUME NEW b, NEW q, NEW f, Unfolds(f, b, q)
  PROVE  \E h : Unfolds(h, b, q) /\ FoldLeft(Considered, b, q) = h[DOMAIN q]
<1> DEFINE h == CHOOSE g : Unfolds(g, b, q)
<1>1. FoldLeft(Considered, b, q) = h[DOMAIN q]
  BY DEF FoldLeft, MapThenFoldSet, Max, Greatest, Unfolds
<1>2. Unfolds(h, b, q)
  OBVIOUS
<1> QED BY <1>1, <1>2


(* Whatever the hits are, what is selected keeps to the policy.            *)
LEMMA SelectedAreChosen ==
  ASSUME NEW hits \in Seq(Urls)
  PROVE  FoldLeft(Considered, [urls |-> {}, excluded |-> {}], hits) \in Chosen
<1> DEFINE b == [urls |-> {}, excluded |-> {}]
           F == [i \in 1 .. Len(hits) |-> [s \in Chosen |-> Considered(s, hits[i])]]
           n == Len(hits)
<1>1. n \in Nat /\ DOMAIN hits = 1 .. n
  OBVIOUS
<1>2. b \in Chosen
  BY FS_EmptySet DEF Chosen
<1>3. \A i \in 1 .. n : hits[i] \in Urls
  OBVIOUS
<1>4. F \in [1 .. n -> [Chosen -> Chosen]]
  <2>1. \A i \in 1 .. n : \A s \in Chosen : Considered(s, hits[i]) \in Chosen
    BY <1>3, ConsideredIsChosen
  <2> QED BY <2>1
<1> HIDE DEF b, n
<1>5. PICK g \in [SUBSET (1 .. n) -> Chosen] : Folds(g, b, F, n)
  <2> HIDE DEF F
  <2> QED BY <1>1, <1>2, <1>4, FoldExists
<1>6. ASSUME NEW s \in SUBSET (1 .. n)
      PROVE  g[s] = IF s = {} THEN b
                    ELSE Considered(g[s \ {Greatest(s)}], hits[Greatest(s)])
  <2>1. CASE s = {}
    BY <1>5, <2>1 DEF Folds
  <2>2. CASE s # {}
    <3>1. Greatest(s) \in 1 .. n /\ s \ {Greatest(s)} \in SUBSET (1 .. n)
      BY <1>1, <2>2, GreatestIs
    <3>2. g[s \ {Greatest(s)}] \in Chosen
      BY <3>1
    <3>3. F[Greatest(s)] = [r \in Chosen |-> Considered(r, hits[Greatest(s)])]
      BY <3>1 DEF n
    <3>4. F[Greatest(s)][g[s \ {Greatest(s)}]]
            = Considered(g[s \ {Greatest(s)}], hits[Greatest(s)])
      BY <3>2, <3>3
    <3>5. g[s] = F[Greatest(s)][g[s \ {Greatest(s)}]]
      <4> HIDE DEF F
      <4> QED BY <1>5, <2>2 DEF Folds
    <3> QED BY <2>2, <3>4, <3>5
  <2> QED BY <2>1, <2>2
<1> HIDE DEF F
<1>7. Unfolds(g, b, hits)
  BY <1>1, <1>6 DEF Unfolds
<1>8. PICK h : Unfolds(h, b, hits) /\ FoldLeft(Considered, b, hits) = h[DOMAIN hits]
  BY <1>7, FoldIs
<1>9. \A s \in SUBSET (1 .. n) :
        h[s] = IF s = {} THEN b ELSE Considered(h[s \ {Greatest(s)}], hits[Greatest(s)])
  BY <1>1, <1>8 DEF Unfolds
<1> DEFINE A == {s \in SUBSET (1 .. n) : h[s] \in Chosen}
<1>10. {} \in A
  BY <1>2, <1>9
<1>11. ASSUME NEW s \in SUBSET (1 .. n), s # {}, s \ {Greatest(s)} \in A PROVE s \in A
  <2>1. h[s \ {Greatest(s)}] \in Chosen /\ Greatest(s) \in 1 .. n
    BY <1>1, <1>11, GreatestIs
  <2>2. h[s] = Considered(h[s \ {Greatest(s)}], hits[Greatest(s)])
    BY <1>9, <1>11
  <2> QED BY <1>3, <2>1, <2>2, ConsideredIsChosen
<1>12. h[1 .. n] \in Chosen
  <2> HIDE DEF A
  <2>1. \A s \in SUBSET (1 .. n) : s \in A
    BY <1>1, <1>10, <1>11, PeelInduction
  <2> QED BY <2>1 DEF A
<1> QED BY <1>1, <1>8, <1>12 DEF b

(* Texts the sanitizer leaves as they are, and what is made of them.       *)
CleanTexts == {t \in Texts : Safe[t] = t}
Pages == [hit : Urls, url : Urls, text : CleanTexts]
Chunks == UNION {Cleaned(Mapped(results)) : results \in Results}

(* The sanitizer leaves its own results alone.                             *)
LEMMA ChunksAreClean ==
  \A c \in Chunks : c.text \in CleanTexts
<1> SUFFICES ASSUME NEW results \in Results, NEW c \in Cleaned(Mapped(results))
             PROVE  c.text \in CleanTexts
  BY DEF Chunks
<1>1. PICK d \in Mapped(results) : Safe[d.text] # Nothing /\ c = [d EXCEPT !.text = Safe[d.text]]
  BY DEF Cleaned
<1>2. PICK r \in results : d = [chunk |-> r.chunk, text |-> r.text, score |-> r.score]
  BY <1>1 DEF Mapped
<1>3. d.text \in Texts /\ c.text = Safe[d.text]
  BY <1>1, <1>2, Limits
<1> QED BY <1>1, <1>3, Limits DEF CleanTexts

(* Of the pages with one text the first is kept.                           *)
Apart(pages) == \A p, q \in pages : p.text = q.text => p = q

Preferred(p) == Domain[p.hit] \in Trusted
Before(p, q) == (Preferred(p) /\ ~Preferred(q))
                  \/ (Preferred(p) = Preferred(q) /\ p.url < q.url)

(* Among pages with one text there is a first: addresses are ordered.      *)
LEMMA FirstExists ==
  ASSUME NEW same \in SUBSET Pages, same # {}
  PROVE  \E p \in same : \A q \in same : ~Before(q, p)
<1> DEFINE best == {p \in same : Preferred(p)}
           cand == IF best # {} THEN best ELSE same
           T == {n \in Nat : \E p \in cand : p.url = n}
<1>1. cand # {} /\ \A p \in cand : p \in same /\ p.url \in Nat
  BY Limits DEF Pages
<1>2. T \subseteq Nat /\ T # {}
  BY <1>1
<1>3. PICK n \in T : \A m \in T : n <= m
  <2> HIDE DEF T
  <2> QED BY <1>2, LeastOf
<1>4. PICK p \in cand : p.url = n
  OBVIOUS
<1>5. ASSUME NEW q \in same, Preferred(q) /\ ~Preferred(p) PROVE FALSE
  <2>1. q \in best
    BY <1>5
  <2> QED BY <1>4, <1>5, <2>1
<1>6. ASSUME NEW q \in same, Preferred(q) <=> Preferred(p), q.url < p.url PROVE FALSE
  <2>1. q \in cand
    BY <1>4, <1>6
  <2>2. q.url \in T
    BY <1>1, <2>1
  <2> HIDE DEF T
  <2> QED BY <1>1, <1>3, <1>4, <1>6, <2>1, <2>2
<1>7. p \in same
  BY <1>1, <1>4
<1> QED BY <1>5, <1>6, <1>7 DEF Before

(* Deduplication adds no page and leaves no text twice.                    *)
LEMMA DistinctIs ==
  ASSUME NEW pages \in SUBSET Pages
  PROVE  /\ Distinct(pages) \subseteq pages
         /\ Apart(Distinct(pages))
<1> DEFINE First(same) == CHOOSE p \in same : \A q \in same : ~Before(q, p)
           With(t) == {p \in pages : p.text = t}
<1>1. Distinct(pages) = {First(With(t)) : t \in {p.text : p \in pages}}
  BY DEF Distinct, Before, Preferred
<1>2. ASSUME NEW t \in {p.text : p \in pages} PROVE First(With(t)) \in pages /\ First(With(t)).text = t
  <2>1. With(t) # {} /\ With(t) \in SUBSET Pages
    OBVIOUS
  <2>2. \E p \in With(t) : \A q \in With(t) : ~Before(q, p)
    <3> HIDE DEF With
    <3> QED BY <2>1, FirstExists
  <2>3. First(With(t)) \in With(t)
    <3> HIDE DEF With
    <3> QED BY <2>2
  <2> HIDE DEF First
  <2> QED BY <2>3
<1> HIDE DEF First, With
<1>3. Distinct(pages) \subseteq pages
  BY <1>1, <1>2
<1>4. ASSUME NEW p \in Distinct(pages), NEW q \in Distinct(pages), p.text = q.text
      PROVE  p = q
  <2>1. PICK t \in {x.text : x \in pages} : p = First(With(t))
    BY <1>1
  <2>2. PICK v \in {x.text : x \in pages} : q = First(With(v))
    BY <1>1
  <2> QED BY <1>2, <1>4, <2>1, <2>2
<1> QED BY <1>3, <1>4 DEF Apart

(* What a search tells.                                                    *)
Outcomes == [status : SearchStatuses, triggered : BOOLEAN,
             fallback : Reasons \union {Nothing}, pages : SUBSET Pages]

(* A search without a page gives a reason, and its pages differ.           *)
Told(o) == /\ o \in Outcomes
           /\ o.pages = {} => o.fallback # Nothing
           /\ Apart(o.pages)

(* So does a bundle.                                                       *)
Sound(b) ==
  /\ b.pages \subseteq Pages /\ b.chunks \subseteq Chunks
  /\ decision.effective # decision.requested => b.fallback # Nothing
  /\ b.localFailed => b.fallback # Nothing
  /\ b.triggered /\ b.pages = {} => b.fallback # Nothing
  /\ Apart(b.pages)
  /\ \A p \in b.pages, c \in b.chunks : p.text # c.text

(* Merging both sides keeps a reason for everything that is missing.       *)
LEMMA MergedIsSound ==
  ASSUME ask \in Questions, decision = Resolved,
         NEW chunks \in SUBSET Chunks, NEW o, Told(o), NEW failed \in BOOLEAN
  PROVE  Sound(Merged(chunks, o, failed)) /\ Merged(chunks, o, failed).triggered = o.triggered
<1> DEFINE pages == {p \in o.pages : \A c \in chunks : c.text # p.text}
           why == IF failed /\ pages # {} THEN "local_retrieval_failed"
                  ELSE IF pages = {} /\ chunks # {} /\ o.fallback = Nothing
                  THEN "web_unavailable_local_fallback"
                  ELSE o.fallback
           reason == IF why # Nothing THEN why
                     ELSE IF o.fallback # Nothing THEN o.fallback ELSE decision.fallback
           b == [triggered |-> o.triggered, status |-> o.status, fallback |-> reason,
                 chunks |-> chunks, pages |-> pages, localFailed |-> failed]
<1>1. Merged(chunks, o, failed) = b
  BY DEF Merged, Bundled
<1>2. Nothing \notin Reasons
  BY Limits
<1>3. pages = {} => why # Nothing
  <2>1. CASE chunks = {}
    <3>1. pages = o.pages
      BY <2>1
    <3> QED BY <2>1, <3>1, <1>2 DEF Told, Reasons
  <2>2. CASE chunks # {}
    BY <2>2, <1>2 DEF Reasons
  <2> QED BY <2>1, <2>2
<1>4. failed => why # Nothing
  BY <1>2, <1>3 DEF Reasons
<1>5. decision.effective # decision.requested => decision.fallback # Nothing
  BY ResolvedIs
<1>6. pages \subseteq Pages /\ Apart(pages)
  BY DEF Told, Apart, Outcomes
<1>7. \A p \in pages, c \in chunks : p.text # c.text
  OBVIOUS
<1> HIDE DEF pages, why
<1>8. /\ b.pages = pages /\ b.chunks = chunks /\ b.localFailed = failed /\ b.triggered = o.triggered
      /\ b.fallback = reason
  OBVIOUS
<1>9. /\ why # Nothing => reason # Nothing
      /\ decision.fallback # Nothing => reason # Nothing
  OBVIOUS
<1> HIDE DEF b, reason
<1> QED BY <1>1, <1>3, <1>4, <1>5, <1>6, <1>7, <1>8, <1>9 DEF Sound

-----------------------------------------------------------------------------
(* What a question, its two sides and their fetches agree on.              *)
SearchSteps == {"idle", "begin", "search", "asking", "select", "fetching", "rank",
                "returned"}
Searches == [pc : SearchSteps, hits : Seq(Urls), excluded : SUBSET {"excluded", "fetch_timeout"},
             pages : SUBSET Pages, outcome : Outcomes \union {Nothing}]
Fetchings == [pc : {"queued", "running", "done", "collected", "cancelled"}, at : Targets,
              hops : 0 .. MaxRedirects,
              result : Texts \union {"excluded", "fetch_timeout", Nothing}]

FetchesTyped ==
  /\ DOMAIN task \subseteq Targets /\ IsFiniteSet(DOMAIN task)
  /\ task \in [DOMAIN task -> Fetchings]
  /\ \A u \in DOMAIN task : task[u].pc = "done" => task[u].result # Nothing

QuestionTyped ==
  /\ ask \in Questions
  /\ main \in {"policy", "local", "web", "together", "await", "done", "error"}
  /\ decision \in {Resolved, Nothing}
  /\ local \in [pc : {"idle", "pointers", "query", "done", "failed"}, chunks : SUBSET Chunks]
  /\ late \in BOOLEAN /\ cancelled \in BOOLEAN

SearchTyped ==
  /\ web \in Searches /\ sent \in BOOLEAN
  /\ cache \in HitLists \union Cached \union {Nothing}

(* The web side moves only once the mode is resolved and asks for it.      *)
LeaveAgrees ==
  /\ main \notin {"policy", "error"} => decision = Resolved
  /\ main \in {"policy", "local"} => web.pc = "idle"
  /\ web.pc # "idle" => decision = Resolved /\ decision.effective # "knowledge_only"

(* Nothing has been fetched, or even asked for, before its step.           *)
Early == {"idle", "begin", "search", "asking", "select"}
NotYet ==
  /\ web.pc \in Early => task = NoTasks /\ web.pages = {}
  /\ web.pc \in {"idle", "begin", "search"} => ~sent

(* Who goes on without the local thread has waited for the deadline.       *)
SessionAgrees ==
  /\ main = "policy" => decision = Nothing
  /\ bundle # Nothing => main = "done"
  /\ main = "web" => local.pc \in {"done", "failed"}
  /\ main \in {"await", "done"} /\ local.pc \in {"pointers", "query"} => late

(* A page belongs to a fetch that was collected, a fetch without a page    *)
(* left a reason, and so does one that was not waited for.                 *)
AllIn == \A u \in DOMAIN task : task[u].pc = "collected"
PagesAgree ==
  /\ web.pc \in {"fetching", "rank"} =>
       /\ \A p \in web.pages : p.hit \in DOMAIN task /\ task[p.hit].pc = "collected"
       /\ \A p, q \in web.pages : p.hit = q.hit => p = q
       /\ web.excluded = {} =>
            \A u \in DOMAIN task : task[u].pc = "collected" => \E p \in web.pages : p.hit = u
  /\ web.pc = "rank" /\ web.excluded = {} /\ web.pages # {} => AllIn

OutcomeAgrees ==
  web.pc = "returned" =>
    /\ Told(web.outcome)
    /\ ~web.outcome.triggered => ~sent
    /\ web.outcome.status = "success" =>
         AllIn /\ Cardinality(web.outcome.pages) = Cardinality(DOMAIN task)

BundleAgrees ==
  bundle # Nothing =>
    /\ Sound(bundle)
    /\ ~bundle.triggered => ~sent /\ web.pc \in {"idle", "returned"}

QInv == /\ QuestionTyped /\ SearchTyped /\ FetchesTyped /\ LeaveAgrees /\ NotYet
        /\ SessionAgrees /\ PagesAgree /\ OutcomeAgrees /\ BundleAgrees

(* A question begins.                                                      *)
LEMMA QInvInit == RetrievalInit => QInv
<1> SUFFICES ASSUME RetrievalInit PROVE QInv
  OBVIOUS
<1> USE DEF RetrievalInit, NoSearch
<1>1. QuestionTyped
  BY DEF QuestionTyped
<1>2. SearchTyped
  <2>1. <<>> \in Seq(Urls)
    OBVIOUS
  <2>2. web \in Searches
    BY <2>1 DEF Searches, SearchSteps
  <2> QED BY <2>2 DEF SearchTyped
<1>3. FetchesTyped
  <2>1. DOMAIN task = {}
    BY DEF NoTasks
  <2>2. task \in [DOMAIN task -> Fetchings]
    BY <2>1 DEF NoTasks
  <2> QED BY <2>1, <2>2, FS_EmptySet DEF FetchesTyped
<1>4. LeaveAgrees /\ NotYet
  BY DEF LeaveAgrees, NotYet
<1>5. SessionAgrees /\ PagesAgree /\ OutcomeAgrees /\ BundleAgrees
  BY DEF SessionAgrees, PagesAgree, OutcomeAgrees, BundleAgrees
<1> QED BY <1>1, <1>2, <1>3, <1>4, <1>5 DEF QInv

(* A step of the search leaves main and the local side alone.              *)
SearchFrame == UNCHANGED <<ask, main, decision, local, late, cancelled, bundle>>

(* So all that relates main, the local side and the bundle still holds.    *)
LEMMA SearchKeeps ==
  ASSUME QInv, SearchFrame, web.pc \notin {"idle", "returned"}, web'.pc # "idle"
  PROVE  QuestionTyped' /\ LeaveAgrees' /\ SessionAgrees' /\ BundleAgrees'
<1> USE DEF QInv, SearchFrame
<1>1. Resolved' = Resolved
  BY DEF Resolved
<1>2. QuestionTyped'
  BY <1>1 DEF QuestionTyped
<1>3. LeaveAgrees' /\ SessionAgrees'
  BY <1>1 DEF LeaveAgrees, SessionAgrees
<1>4. BundleAgrees'
  BY DEF BundleAgrees, Sound
<1> QED BY <1>2, <1>3, <1>4

(* A search that returns.                                                  *)
LEMMA ReturnIs ==
  ASSUME NEW o, Return(o)
  PROVE  web' = [pc |-> "returned", hits |-> <<>>, excluded |-> {}, pages |-> {}, outcome |-> o]
BY DEF Return, NoSearch

(* It tells what it found, and its fetches are no longer looked at.        *)
LEMMA ReturnKeeps ==
  ASSUME QInv, SearchFrame, UNCHANGED <<cache, sent>>, NEW o, Return(o), Told(o),
         web.pc \notin {"idle", "returned"}, FetchesTyped',
         ~o.triggered => ~sent,
         o.status = "success" => AllIn' /\ Cardinality(o.pages) = Cardinality(DOMAIN task')
  PROVE  QInv'
<1>1. web' = [pc |-> "returned", hits |-> <<>>, excluded |-> {}, pages |-> {}, outcome |-> o]
  BY ReturnIs
<1>2. web'.pc = "returned" /\ web'.outcome = o
  BY <1>1
<1>3. SearchTyped'
  <2>1. web' \in Searches
    BY <1>1 DEF Searches, SearchSteps, Told
  <2> QED BY <2>1 DEF SearchTyped, QInv
<1>4. NotYet' /\ PagesAgree'
  BY <1>2 DEF NotYet, PagesAgree, Early
<1>5. OutcomeAgrees'
  BY <1>2 DEF OutcomeAgrees, Told
<1> QED BY <1>2, <1>3, <1>4, <1>5, SearchKeeps DEF QInv

(* What is told of a search that brought nothing.                          *)
LEMMA OutcomeIsTold ==
  ASSUME NEW st \in SearchStatuses, NEW t \in BOOLEAN, NEW why \in Reasons
  PROVE  /\ Told(Outcome(st, t, why))
         /\ Outcome(st, t, why).status = st
         /\ Outcome(st, t, why).triggered = t
         /\ Outcome(st, t, why).pages = {}
<1>1. why # Nothing
  BY Limits
<1> QED BY <1>1 DEF Outcome, Told, Outcomes, Apart


(* A step that ends the search without a result.                           *)
LEMMA GiveUpKeeps ==
  ASSUME QInv, SearchFrame, UNCHANGED <<cache, sent, task>>,
         web.pc \notin {"idle", "returned"},
         NEW st \in SearchStatuses \ {"success"}, NEW t \in BOOLEAN, NEW why \in Reasons,
         ~t => ~sent, Return(Outcome(st, t, why))
  PROVE  QInv'
<1>1. FetchesTyped'
  BY DEF FetchesTyped, QInv
<1> QED BY <1>1, OutcomeIsTold, ReturnKeeps

(* Without a query, a client or a provider nothing is asked.               *)
LEMMA BeginSearchKeeps == ASSUME QInv, BeginSearch PROVE QInv'
<1>1. web.pc = "begin" /\ SearchFrame /\ UNCHANGED <<cache, sent, task>> /\ ~sent
  BY DEF BeginSearch, SearchFrame, QInv, NotYet
<1>2. CASE Return(Outcome("query_rejected", FALSE, "web_query_rejected"))
  BY <1>1, <1>2, GiveUpKeeps DEF SearchStatuses, Reasons
<1>3. CASE Return(Outcome("failed", FALSE, "client_cancelled"))
  BY <1>1, <1>3, GiveUpKeeps DEF SearchStatuses, Reasons
<1>4. CASE Return(Outcome("not_configured", FALSE, "web_provider_not_configured"))
  BY <1>1, <1>4, GiveUpKeeps DEF SearchStatuses, Reasons
<1>5. CASE web' = [web EXCEPT !.pc = "search"]
  <2>1. web'.pc = "search" /\ web' \in Searches /\ web'.pages = web.pages
    BY <1>5 DEF QInv, SearchTyped, Searches, SearchSteps
  <2>2. SearchTyped' /\ FetchesTyped'
    BY <1>1, <2>1 DEF QInv, SearchTyped, FetchesTyped
  <2>3. NotYet' /\ PagesAgree' /\ OutcomeAgrees'
    BY <1>1, <2>1 DEF QInv, NotYet, Early, PagesAgree, OutcomeAgrees
  <2> QED BY <1>1, <2>1, <2>2, <2>3, SearchKeeps DEF QInv
<1> QED BY <1>2, <1>3, <1>4, <1>5 DEF BeginSearch

(* From here on the provider may have been asked.                          *)
LEMMA CachedSearchKeeps == ASSUME QInv, CachedSearch PROVE QInv'
<1>1. web.pc = "search" /\ SearchFrame /\ UNCHANGED task
  BY DEF CachedSearch, SearchFrame
<1>2. /\ web'.pc \in {"select", "asking"} /\ web'.pages = web.pages
      /\ web' \in Searches /\ sent' \in BOOLEAN /\ cache' \in HitLists \union Cached \union {Nothing}
  <2>1. CASE cache # Nothing /\ web' = [web EXCEPT !.pc = "select", !.hits = cache]
               /\ UNCHANGED <<cache, sent>>
    <3>1. cache \in Seq(Urls)
      BY <2>1, Limits DEF QInv, SearchTyped
    <3> QED BY <2>1, <3>1 DEF QInv, SearchTyped, Searches, SearchSteps
  <2>2. CASE cache' = Nothing /\ sent' = TRUE /\ web' = [web EXCEPT !.pc = "asking"]
    BY <2>2 DEF QInv, SearchTyped, Searches, SearchSteps
  <2> QED BY <2>1, <2>2 DEF CachedSearch
<1>3. SearchTyped' /\ FetchesTyped'
  BY <1>1, <1>2 DEF QInv, SearchTyped, FetchesTyped
<1>4. NotYet' /\ PagesAgree' /\ OutcomeAgrees'
  BY <1>1, <1>2 DEF QInv, NotYet, Early, PagesAgree, OutcomeAgrees
<1> QED BY <1>1, <1>2, <1>3, <1>4, SearchKeeps DEF QInv

(* The hits, or the provider's error, are no evidence yet.                 *)
LEMMA ProviderAnswersKeeps == ASSUME QInv, ProviderAnswers PROVE QInv'
<1>1. web.pc = "asking" /\ SearchFrame /\ UNCHANGED <<sent, task>>
  BY DEF ProviderAnswers, SearchFrame
<1>2. CASE \E hits \in HitLists : /\ web' = [web EXCEPT !.pc = "select", !.hits = hits]
                                  /\ cache' = IF Caching THEN hits ELSE cache
  <2>1. PICK hits \in HitLists : /\ web' = [web EXCEPT !.pc = "select", !.hits = hits]
                                 /\ cache' = IF Caching THEN hits ELSE cache
    BY <1>2
  <2>2. hits \in Seq(Urls) /\ cache' \in HitLists \union Cached \union {Nothing}
    BY <2>1, Limits DEF QInv, SearchTyped
  <2>3. web' \in Searches /\ web'.pc = "select" /\ web'.pages = web.pages
    BY <2>1, <2>2 DEF QInv, SearchTyped, Searches, SearchSteps
  <2>4. SearchTyped' /\ FetchesTyped'
    BY <1>1, <2>2, <2>3 DEF QInv, SearchTyped, FetchesTyped
  <2>5. NotYet' /\ PagesAgree' /\ OutcomeAgrees'
    BY <1>1, <2>3 DEF QInv, NotYet, Early, PagesAgree, OutcomeAgrees
  <2> QED BY <1>1, <2>3, <2>4, <2>5, SearchKeeps DEF QInv
<1>3. CASE (\E st \in {"rate_limited", "timeout", "failed"} :
                Return(Outcome(st, TRUE, "web_search_failed"))) /\ UNCHANGED cache
  BY <1>1, <1>3, GiveUpKeeps DEF SearchStatuses, Reasons
<1> QED BY <1>2, <1>3 DEF ProviderAnswers

(* Only addresses that were selected get a fetch.                          *)
LEMMA SelectKeeps == ASSUME QInv, Select PROVE QInv'
<1> DEFINE chosen == FoldLeft(Considered, [urls |-> {}, excluded |-> {}], web.hits)
<1>1. web.pc = "select" /\ SearchFrame /\ UNCHANGED <<sent, cache>> /\ task = NoTasks
  BY DEF Select, SearchFrame, QInv, NotYet, Early
<1>2. CASE Return(Outcome("success", TRUE, "web_no_results")) /\ UNCHANGED task
  <2> DEFINE o == Outcome("success", TRUE, "web_no_results")
  <2>1. AllIn' /\ FetchesTyped' /\ DOMAIN task' = {}
    BY <1>1, <1>2 DEF AllIn, NoTasks, QInv, FetchesTyped
  <2>2. Told(o)
    BY Limits DEF Outcome, Told, Outcomes, Apart, SearchStatuses, Reasons
  <2>4. o.triggered /\ o.pages = {}
    BY DEF Outcome
  <2> HIDE DEF o
  <2>3. Return(o)
    BY <1>2 DEF o
  <2> QED BY <1>1, <2>1, <2>2, <2>3, <2>4, ReturnKeeps
<1>3. CASE /\ web' = [web EXCEPT !.excluded = chosen.excluded,
                        !.pc = IF chosen.urls = {} THEN "rank" ELSE "fetching"]
           /\ task' = [u \in chosen.urls |->
                         [pc |-> "queued", at |-> u, hops |-> 0, result |-> Nothing]]
  <2>1. chosen \in Chosen
    BY SelectedAreChosen DEF QInv, SearchTyped, Searches
  <2> HIDE DEF chosen
  <2>2. /\ chosen.urls \subseteq Targets /\ IsFiniteSet(chosen.urls)
        /\ chosen.excluded \subseteq {"excluded"}
    BY <2>1 DEF Chosen
  <2>3. /\ web' \in Searches /\ web'.pc \in {"rank", "fetching"}
        /\ web'.pages = web.pages
    BY <1>3, <2>2 DEF QInv, SearchTyped, Searches, SearchSteps
  <2>4. DOMAIN task' = chosen.urls /\ \A u \in chosen.urls : task'[u].pc = "queued"
    BY <1>3
  <2>5. FetchesTyped'
    <3>1. \A u \in chosen.urls : [pc |-> "queued", at |-> u, hops |-> 0, result |-> Nothing] \in Fetchings
      BY <2>2, Limits DEF Fetchings
    <3>2. task' \in [DOMAIN task' -> Fetchings]
      BY <1>3, <2>4, <3>1
    <3> QED BY <2>2, <2>4, <3>2 DEF FetchesTyped
  <2>6. SearchTyped'
    BY <1>1, <2>3 DEF QInv, SearchTyped
  <2>7. web.pages = {}
    BY <1>1 DEF QInv, NotYet, Early
  <2>8. NotYet' /\ PagesAgree' /\ OutcomeAgrees'
    BY <2>3, <2>4, <2>7 DEF NotYet, Early, PagesAgree, OutcomeAgrees
  <2> QED BY <1>1, <2>3, <2>5, <2>6, <2>8, SearchKeeps DEF QInv
<1> HIDE DEF chosen
<1>4. (Return(Outcome("success", TRUE, "web_no_results")) /\ UNCHANGED task)
        \/ (/\ web' = [web EXCEPT !.excluded = chosen.excluded,
                        !.pc = IF chosen.urls = {} THEN "rank" ELSE "fetching"]
            /\ task' = [u \in chosen.urls |->
                         [pc |-> "queued", at |-> u, hops |-> 0, result |-> Nothing]])
  BY DEF Select, chosen
<1> QED BY <1>2, <1>3, <1>4


(* A fetch under way goes on.                                              *)
QuestionFrame == UNCHANGED <<ask, main, decision, local, web, late, cancelled, cache, sent, bundle>>

(* No page, no outcome and no bundle depends on a fetch under way.         *)
LEMMA FetchGoesOn ==
  ASSUME QInv, QuestionFrame, NEW u \in DOMAIN task, task[u].pc \in {"queued", "running"},
         NEW f \in Fetchings, f.pc \in {"running", "done"}, f.pc = "done" => f.result # Nothing,
         task' = [task EXCEPT ![u] = f]
  PROVE  QInv'
<1> USE DEF QInv, QuestionFrame
<1>1. web.pc \notin Early
  BY DEF NotYet, NoTasks
<1>2. web'.pc # "idle" /\ web' = web
  BY <1>1 DEF Early
<1>3. DOMAIN task' = DOMAIN task /\ task'[u] = f /\ \A v \in DOMAIN task \ {u} : task'[v] = task[v]
  OBVIOUS
<1>4. QuestionTyped' /\ LeaveAgrees'
  <2>1. Resolved' = Resolved
    BY DEF Resolved
  <2> QED BY <2>1 DEF QuestionTyped, LeaveAgrees
<1>5. SearchTyped'
  BY DEF SearchTyped
<1>6. FetchesTyped'
  <2>1. \A v \in DOMAIN task' : task'[v] \in Fetchings
    BY <1>3 DEF FetchesTyped
  <2>2. task' \in [DOMAIN task' -> Fetchings]
    BY <2>1
  <2> QED BY <1>3, <2>2 DEF FetchesTyped
<1>7. NotYet' /\ SessionAgrees'
  BY <1>1 DEF NotYet, SessionAgrees, Early
<1>8. ~AllIn
  BY DEF AllIn
<1>9. PagesAgree'
  BY <1>3, <1>8 DEF PagesAgree
<1>10. OutcomeAgrees'
  BY <1>8 DEF OutcomeAgrees, Told
<1>11. BundleAgrees'
  BY DEF BundleAgrees, Sound
<1> QED BY <1>4, <1>5, <1>6, <1>7, <1>9, <1>10, <1>11

(* A thread of the pool takes a fetch.                                     *)
LEMMA StartFetchKeeps ==
  ASSUME QInv, NEW u \in DOMAIN task, StartFetch(u) PROVE QInv'
<1>1. QuestionFrame /\ task[u].pc = "queued" /\ task' = [task EXCEPT ![u].pc = "running"]
  BY DEF StartFetch, QuestionFrame
<1> DEFINE f == [task[u] EXCEPT !.pc = "running"]
<1>2. f \in Fetchings /\ f.pc = "running" /\ task' = [task EXCEPT ![u] = f]
  BY <1>1 DEF QInv, FetchesTyped, Fetchings
<1> HIDE DEF f
<1> QED BY <1>1, <1>2, FetchGoesOn

(* It ends, or is redirected to an address that is allowed.                *)
LEMMA FetchKeeps ==
  ASSUME QInv, NEW u \in DOMAIN task, Fetch(u) PROVE QInv'
<1>1. QuestionFrame /\ task[u].pc = "running" /\ task[u] \in Fetchings
  BY DEF Fetch, QuestionFrame, QInv, FetchesTyped
<1>2. Nothing \notin Texts /\ Nothing # "excluded" /\ Nothing # "fetch_timeout"
  BY Limits
<1>3. ASSUME NEW r \in {"fetch_timeout", "excluded"} \union Texts,
             task' = [task EXCEPT ![u].pc = "done", ![u].result = r]
      PROVE  QInv'
  <2> DEFINE f == [task[u] EXCEPT !.pc = "done", !.result = r]
  <2>1. task' = [task EXCEPT ![u] = f]
    BY <1>3
  <2>2. f \in Fetchings /\ f.pc = "done" /\ f.result # Nothing
    BY <1>1, <1>2, <1>3 DEF Fetchings
  <2> HIDE DEF f
  <2> QED BY <1>1, <2>1, <2>2, FetchGoesOn
<1>4. ASSUME NEW v \in Urls, task' = [task EXCEPT ![u] = Follow(task[u], v)] PROVE QInv'
  <2> DEFINE f == Follow(task[u], v)
  <2>1. f \in Fetchings /\ f.pc \in {"running", "done"} /\ (f.pc = "done" => f.result # Nothing)
    <3>1. CASE task[u].hops >= MaxRedirects \/ v \notin Allowed
      <4>1. f = [task[u] EXCEPT !.pc = "done", !.result = "excluded"]
        BY <3>1 DEF Follow
      <4> HIDE DEF f
      <4> QED BY <1>1, <1>2, <4>1 DEF Fetchings
    <3>2. CASE ~(task[u].hops >= MaxRedirects \/ v \notin Allowed)
      <4>1. f = [task[u] EXCEPT !.at = v, !.hops = task[u].hops + 1]
        BY <3>2 DEF Follow
      <4>2. task[u].hops + 1 \in 0 .. MaxRedirects /\ v \in Targets
        BY <1>1, <1>4, <3>2, Limits DEF Fetchings, Targets
      <4> HIDE DEF f
      <4> QED BY <1>1, <4>1, <4>2 DEF Fetchings
    <3> QED BY <3>1, <3>2
  <2>2. task' = [task EXCEPT ![u] = f]
    BY <1>4
  <2> HIDE DEF f
  <2> QED BY <1>1, <2>1, <2>2, FetchGoesOn
<1> QED BY <1>3, <1>4 DEF Fetch

(* What a finished fetch adds is a page of its own or a reason.            *)
LEMMA TakenIs ==
  ASSUME QInv, NEW u \in DOMAIN task, task[u].pc = "done"
  PROVE  \E whys \in SUBSET {"excluded", "fetch_timeout"} :
           \/ whys # {} /\ Taken(u) = [web EXCEPT !.excluded = @ \union whys]
           \/ \E p \in Pages : /\ p.hit = u
                               /\ Taken(u) = [web EXCEPT !.excluded = @ \union whys,
                                                           !.pages = @ \union {p}]
<1> DEFINE r == task[u].result
<1>1. r \in Texts \union {"excluded", "fetch_timeout"} /\ task[u].at \in Urls /\ u \in Urls
  BY DEF QInv, FetchesTyped, Fetchings, Targets
<1>2. CASE r \notin Texts
  <2>1. Taken(u) = [web EXCEPT !.excluded = @ \union {r}]
    BY <1>2 DEF Taken
  <2> QED BY <1>1, <1>2, <2>1
<1>3. CASE r \in Texts /\ (Safe[r] = Nothing \/ (ask.risky /\ Domain[u] \notin Trusted))
  <2>1. Taken(u) = [web EXCEPT !.excluded = @ \union {"excluded"}]
    BY <1>3 DEF Taken
  <2> QED BY <2>1
<1>4. CASE r \in Texts /\ ~(Safe[r] = Nothing \/ (ask.risky /\ Domain[u] \notin Trusted))
  <2> DEFINE whys == IF Safe[r] # r THEN {"excluded"} ELSE {}
             p == Page(u)
  <2>1. Taken(u) = [[web EXCEPT !.excluded = @ \union whys] EXCEPT !.pages = @ \union {p}]
    BY <1>4 DEF Taken
  <2>2. p = [hit |-> u, url |-> task[u].at, text |-> Safe[r]]
    BY DEF Page
  <2>3. Safe[r] \in CleanTexts
    BY <1>4, Limits DEF CleanTexts
  <2>4. p \in Pages /\ p.hit = u
    BY <1>1, <2>2, <2>3 DEF Pages
  <2>5. whys \in SUBSET {"excluded", "fetch_timeout"}
    OBVIOUS
  <2> HIDE DEF whys, p
  <2>6. [[web EXCEPT !.excluded = @ \union whys] EXCEPT !.pages = @ \union {p}]
          = [web EXCEPT !.excluded = @ \union whys, !.pages = @ \union {p}]
    BY DEF QInv, SearchTyped, Searches
  <2> QED BY <2>1, <2>4, <2>5, <2>6
<1> QED BY <1>2, <1>3, <1>4

(* A collected fetch has its page, or its reason, and no second one.       *)
LEMMA CollectKeeps ==
  ASSUME QInv, NEW u \in DOMAIN task, Collect(u) PROVE QInv'
<1>1. /\ web.pc = "fetching" /\ task[u].pc = "done" /\ SearchFrame
      /\ UNCHANGED <<cache, sent>>
  BY DEF Collect, SearchFrame
<1>2. CASE web' = Stopped /\ UNCHANGED task
  <2>1. /\ web' \in Searches /\ web'.pc = "rank" /\ web'.pages = web.pages
        /\ web'.excluded # {}
    BY <1>2 DEF Stopped, QInv, SearchTyped, Searches, SearchSteps
  <2>2. SearchTyped' /\ FetchesTyped'
    BY <1>1, <1>2, <2>1 DEF QInv, SearchTyped, FetchesTyped
  <2>3. NotYet' /\ PagesAgree' /\ OutcomeAgrees'
    BY <1>1, <1>2, <2>1 DEF QInv, NotYet, Early, PagesAgree, OutcomeAgrees
  <2> QED BY <1>1, <2>1, <2>2, <2>3, SearchKeeps DEF QInv
<1>3. CASE web' = Taken(u) /\ task' = [task EXCEPT ![u] = Collected(u)]
  <2>1. /\ DOMAIN task' = DOMAIN task /\ task'[u] = Collected(u)
        /\ \A v \in DOMAIN task \ {u} : task'[v] = task[v]
    BY <1>3
  <2>2. Collected(u) \in Fetchings /\ Collected(u).pc = "collected"
    BY Limits DEF Collected, Fetchings, QInv, FetchesTyped
  <2>3. FetchesTyped'
    <3>1. \A v \in DOMAIN task' : task'[v] \in Fetchings
      BY <2>1, <2>2 DEF QInv, FetchesTyped
    <3>2. task' \in [DOMAIN task' -> Fetchings]
      BY <1>3, <3>1
    <3> QED BY <2>1, <2>2, <3>2 DEF QInv, FetchesTyped
  <2>4. PICK whys \in SUBSET {"excluded", "fetch_timeout"} :
           \/ whys # {} /\ Taken(u) = [web EXCEPT !.excluded = @ \union whys]
           \/ \E p \in Pages : /\ p.hit = u
                               /\ Taken(u) = [web EXCEPT !.excluded = @ \union whys,
                                                           !.pages = @ \union {p}]
    BY <1>1, TakenIs
  <2>5. \A p \in web.pages : p.hit # u /\ p.hit \in DOMAIN task /\ task[p.hit].pc = "collected"
    BY <1>1 DEF QInv, PagesAgree
  <2>6. CASE whys # {} /\ web' = [web EXCEPT !.excluded = @ \union whys]
    <3>1. web' \in Searches /\ web'.pc = "fetching" /\ web'.excluded # {} /\ web'.pages = web.pages
      BY <1>1, <2>6 DEF QInv, SearchTyped, Searches
    <3>2. SearchTyped' /\ NotYet' /\ OutcomeAgrees'
      BY <1>1, <3>1 DEF QInv, SearchTyped, NotYet, Early, OutcomeAgrees
    <3>3. PagesAgree'
      BY <1>1, <2>1, <2>2, <2>5, <3>1 DEF QInv, PagesAgree
    <3> QED BY <1>1, <2>3, <3>1, <3>2, <3>3, SearchKeeps DEF QInv
  <2>7. ASSUME NEW p \in Pages, p.hit = u,
               web' = [web EXCEPT !.excluded = @ \union whys, !.pages = @ \union {p}]
        PROVE  QInv'
    <3>1. /\ web' \in Searches /\ web'.pc = "fetching"
          /\ web'.excluded = web.excluded \union whys
          /\ web'.pages = web.pages \union {p}
      BY <1>1, <2>7 DEF QInv, SearchTyped, Searches
    <3>2. SearchTyped' /\ NotYet' /\ OutcomeAgrees'
      BY <1>1, <3>1 DEF QInv, SearchTyped, NotYet, Early, OutcomeAgrees
    <3>3. PagesAgree'
      <4>1. \A x \in web'.pages : x.hit \in DOMAIN task' /\ task'[x.hit].pc = "collected"
        BY <2>1, <2>2, <2>5, <2>7, <3>1
      <4>2. \A x, y \in web'.pages : x.hit = y.hit => x = y
        BY <1>1, <2>5, <2>7, <3>1 DEF QInv, PagesAgree
      <4>3. ASSUME web'.excluded = {}, NEW v \in DOMAIN task', task'[v].pc = "collected"
            PROVE  \E x \in web'.pages : x.hit = v
        <5>1. CASE v = u
          BY <2>7, <3>1, <5>1
        <5>2. CASE v # u
          <6>1. web.excluded = {} /\ task[v].pc = "collected" /\ v \in DOMAIN task
            BY <2>1, <3>1, <4>3, <5>2
          <6> QED BY <1>1, <3>1, <6>1 DEF QInv, PagesAgree
        <5> QED BY <5>1, <5>2
      <4> QED BY <3>1, <4>1, <4>2, <4>3 DEF PagesAgree
    <3> QED BY <1>1, <2>3, <3>1, <3>2, <3>3, SearchKeeps DEF QInv
  <2> QED BY <1>3, <2>4, <2>6, <2>7
<1> QED BY <1>2, <1>3 DEF Collect


(* Nothing is missing when every fetch was collected.                      *)
LEMMA AllCollectedKeeps == ASSUME QInv, AllCollected PROVE QInv'
<1>1. /\ web.pc = "fetching" /\ AllIn /\ SearchFrame
      /\ UNCHANGED <<cache, sent, task>> /\ web' = [web EXCEPT !.pc = "rank"]
  BY DEF AllCollected, SearchFrame, AllIn
<1>2. /\ web' \in Searches /\ web'.pc = "rank" /\ web'.pages = web.pages
      /\ web'.excluded = web.excluded
  BY <1>1 DEF QInv, SearchTyped, Searches, SearchSteps
<1>3. SearchTyped' /\ FetchesTyped'
  BY <1>1, <1>2 DEF QInv, SearchTyped, FetchesTyped
<1>4. NotYet' /\ PagesAgree' /\ OutcomeAgrees'
  BY <1>1, <1>2 DEF QInv, NotYet, Early, PagesAgree, OutcomeAgrees, AllIn
<1> QED BY <1>1, <1>2, <1>3, <1>4, SearchKeeps DEF QInv

(* A deadline is a reason.                                                 *)
LEMMA FetchDeadlineKeeps == ASSUME QInv, FetchDeadline PROVE QInv'
<1>1. /\ web.pc = "fetching" /\ SearchFrame /\ UNCHANGED <<cache, sent, task>>
      /\ web' = [web EXCEPT !.pc = "rank", !.excluded = @ \union {"fetch_timeout"}]
  BY DEF FetchDeadline, SearchFrame
<1>2. /\ web' \in Searches /\ web'.pc = "rank" /\ web'.pages = web.pages
      /\ web'.excluded # {}
  BY <1>1 DEF QInv, SearchTyped, Searches, SearchSteps
<1>3. SearchTyped' /\ FetchesTyped'
  BY <1>1, <1>2 DEF QInv, SearchTyped, FetchesTyped
<1>4. NotYet' /\ PagesAgree' /\ OutcomeAgrees'
  BY <1>1, <1>2 DEF QInv, NotYet, Early, PagesAgree, OutcomeAgrees
<1> QED BY <1>1, <1>2, <1>3, <1>4, SearchKeeps DEF QInv

(* When no reason was left, pages and fetches are as many.                 *)
LEMMA AsManyPages ==
  ASSUME QInv, web.pc = "rank", web.excluded = {}, web.pages # {}
  PROVE  AllIn /\ Cardinality(web.pages) = Cardinality(DOMAIN task)
<1>1. AllIn
  BY DEF QInv, PagesAgree
<1>2. \A p \in web.pages : p.hit \in DOMAIN task
  BY DEF QInv, PagesAgree
<1>3. \A p, q \in web.pages : p.hit = q.hit => p = q
  BY DEF QInv, PagesAgree
<1>4. \A u \in DOMAIN task : \E p \in web.pages : p.hit = u
  BY <1>1 DEF QInv, PagesAgree, AllIn
<1> DEFINE S == web.pages
           T == DOMAIN task
           f == [u \in T |-> CHOOSE p \in S : p.hit = u]
<1>5. \A u \in T : f[u] \in S /\ f[u].hit = u
  BY <1>4
<1>6. f \in Bijection(T, S)
  <2>1. f \in [T -> S]
    BY <1>5
  <2>2. \A u, v \in T : f[u] = f[v] => u = v
    BY <1>5
  <2>3. \A p \in S : \E u \in T : f[u] = p
    <3>1. ASSUME NEW p \in S PROVE f[p.hit] = p /\ p.hit \in T
      <4>1. p.hit \in T
        BY <1>2
      <4>2. f[p.hit] \in S /\ f[p.hit].hit = p.hit
        BY <1>5, <4>1
      <4> HIDE DEF f
      <4> QED BY <1>3, <4>1, <4>2
    <3> HIDE DEF f
    <3> QED BY <3>1
  <2> HIDE DEF f
  <2> QED BY <2>1, <2>2, <2>3 DEF Bijection, Injection, Surjection, IsInjective
<1>7. IsFiniteSet(T)
  BY DEF QInv, FetchesTyped
<1>8. ExistsBijection(T, S)
  BY <1>6 DEF ExistsBijection
<1>9. Cardinality(T) = Cardinality(S)
  BY <1>7, <1>8, FS_Bijection
<1> QED BY <1>1, <1>9

(* A success has a page for each fetch.                                    *)
LEMMA RankKeeps == ASSUME QInv, Rank PROVE QInv'
<1> DEFINE kept == Distinct(web.pages)
           excluded == web.excluded \union (IF kept # web.pages THEN {"excluded"} ELSE {})
           st == CASE kept # {} /\ excluded = {} -> "success"
                   [] kept # {} /\ excluded # {} -> "partial"
                   [] kept = {} /\ excluded = {"fetch_timeout"} -> "timeout"
                   [] OTHER -> "failed"
           why == CASE kept = {} -> "web_no_usable_sources"
                    [] kept # {} /\ excluded # {} -> "web_partial_fetch"
                    [] OTHER -> Nothing
           o == [status |-> st, triggered |-> TRUE, fallback |-> why, pages |-> kept]
<1>1. /\ web.pc = "rank" /\ SearchFrame /\ UNCHANGED <<cache, sent>>
      /\ Return(o)
      /\ task' = [u \in DOMAIN task |-> IF task[u].pc = "queued"
                                        THEN [task[u] EXCEPT !.pc = "cancelled"]
                                        ELSE task[u]]
  BY DEF Rank, SearchFrame
<1>2. kept \subseteq web.pages /\ Apart(kept) /\ web.pages \subseteq Pages
  BY DistinctIs DEF QInv, SearchTyped, Searches
<1>3. FetchesTyped'
  <2>1. \A u \in DOMAIN task : task'[u] \in Fetchings /\
             (task'[u].pc = "done" => task'[u].result # Nothing)
    BY <1>1 DEF QInv, FetchesTyped, Fetchings
  <2>2. DOMAIN task' = DOMAIN task /\ task' \in [DOMAIN task' -> Fetchings]
    BY <1>1, <2>1
  <2> QED BY <2>1, <2>2 DEF QInv, FetchesTyped
<1> HIDE DEF kept
<1>4. st \in SearchStatuses /\ why \in Reasons \union {Nothing}
  BY DEF SearchStatuses, Reasons
<1>5. kept = {} => why # Nothing
  BY Limits DEF Reasons
<1>6. Told(o)
  <2> HIDE DEF st, why
  <2> QED BY <1>2, <1>4, <1>5 DEF Told, Outcomes
<1>7. st = "success" => AllIn /\ Cardinality(kept) = Cardinality(DOMAIN task)
  <2>1. st = "success" => kept # {} /\ kept = web.pages /\ web.excluded = {}
    OBVIOUS
  <2> HIDE DEF st
  <2> QED BY <1>1, <2>1, AsManyPages
<1>8. AllIn => AllIn' /\ DOMAIN task' = DOMAIN task
  BY <1>1 DEF AllIn
<1>9. o.triggered /\ o.status = st /\ o.pages = kept
  OBVIOUS
<1> HIDE DEF st, why, o
<1> QED BY <1>1, <1>3, <1>6, <1>7, <1>8, <1>9, ReturnKeeps

(* No step of the search breaks what is agreed.                            *)
LEMMA SearchKeepsQInv == ASSUME QInv, Search PROVE QInv'
BY BeginSearchKeeps, CachedSearchKeeps, ProviderAnswersKeeps, SelectKeeps, CollectKeeps,
   AllCollectedKeeps, FetchDeadlineKeeps, RankKeeps DEF Search

-----------------------------------------------------------------------------
(* A step of main, of the local thread or of the client leaves the fetches *)
(* alone.                                                                  *)
LocalFrame == UNCHANGED <<ask, web, task, cache, sent>>

(* So all that is known of them still holds.                               *)
LEMMA LocalKeeps ==
  ASSUME QInv, LocalFrame
  PROVE  SearchTyped' /\ FetchesTyped' /\ NotYet' /\ PagesAgree' /\ OutcomeAgrees'
BY DEF QInv, LocalFrame, SearchTyped, FetchesTyped, NotYet, PagesAgree, OutcomeAgrees, AllIn,
       Told

(* The bundle, once given, stays as it is.                                 *)
LEMMA BundleKept ==
  ASSUME QInv, LocalFrame, UNCHANGED <<bundle, decision>>
  PROVE  BundleAgrees'
BY DEF QInv, LocalFrame, BundleAgrees, Sound

(* The local thread reads the pointers of the index.                       *)
LEMMA ReadPointersKeeps == ASSUME QInv, ReadPointers PROVE QInv'
<1>1. /\ LocalFrame /\ UNCHANGED <<main, decision, late, cancelled, bundle>>
      /\ local.pc = "pointers"
  BY DEF ReadPointers, LocalFrame
<1>2. local'.pc \in {"query", "failed", "done"} /\ local'.chunks = local.chunks
        /\ local' \in [pc : {"idle", "pointers", "query", "done", "failed"}, chunks : SUBSET Chunks]
  BY DEF ReadPointers, QInv, QuestionTyped
<1>3. Resolved' = Resolved
  BY <1>1 DEF Resolved, LocalFrame
<1>4. QuestionTyped' /\ LeaveAgrees' /\ SessionAgrees'
  BY <1>1, <1>2, <1>3 DEF QInv, QuestionTyped, LeaveAgrees, SessionAgrees, LocalFrame
<1> QED BY <1>1, <1>4, LocalKeeps, BundleKept DEF QInv

(* It brings chunks that were sanitized.                                   *)
LEMMA QueryKeeps == ASSUME QInv, Query PROVE QInv'
<1>1. /\ LocalFrame /\ UNCHANGED <<main, decision, late, cancelled, bundle>>
      /\ local.pc = "query"
  BY DEF Query, LocalFrame
<1>2. local'.pc \in {"failed", "done"}
        /\ local' \in [pc : {"idle", "pointers", "query", "done", "failed"}, chunks : SUBSET Chunks]
  <2>1. CASE local' = [local EXCEPT !.pc = "failed"]
    BY <2>1 DEF QInv, QuestionTyped
  <2>2. ASSUME NEW results \in Results,
               local' = [pc |-> "done", chunks |-> Cleaned(Mapped(results))]
        PROVE  local'.pc = "done" /\ local' \in [pc : {"done"}, chunks : SUBSET Chunks]
    BY <2>2 DEF Chunks
  <2> QED BY <2>1, <2>2 DEF Query
<1>3. Resolved' = Resolved
  BY <1>1 DEF Resolved, LocalFrame
<1>4. QuestionTyped' /\ LeaveAgrees' /\ SessionAgrees'
  BY <1>1, <1>2, <1>3 DEF QInv, QuestionTyped, LeaveAgrees, SessionAgrees, LocalFrame
<1> QED BY <1>1, <1>4, LocalKeeps, BundleKept DEF QInv

(* The client stops the answer.                                            *)
LEMMA CancelKeeps == ASSUME QInv, Cancel PROVE QInv'
<1>1. /\ LocalFrame /\ UNCHANGED <<main, decision, local, late, bundle>> /\ cancelled' = TRUE
  BY DEF Cancel, LocalFrame
<1>2. Resolved' = Resolved
  BY <1>1 DEF Resolved, LocalFrame
<1>3. QuestionTyped' /\ LeaveAgrees' /\ SessionAgrees'
  BY <1>1, <1>2 DEF QInv, QuestionTyped, LeaveAgrees, SessionAgrees, LocalFrame
<1> QED BY <1>1, <1>3, LocalKeeps, BundleKept DEF QInv

(* The search begins.                                                      *)
LEMMA SearchBegins ==
  ASSUME QInv, web.pc = "idle", web' = [web EXCEPT !.pc = "begin"], bundle = Nothing,
         UNCHANGED <<ask, task, cache, sent, bundle>>
  PROVE  SearchTyped' /\ FetchesTyped' /\ NotYet' /\ PagesAgree' /\ OutcomeAgrees'
           /\ BundleAgrees' /\ web'.pc = "begin"
<1>1. web' \in Searches /\ web'.pc = "begin" /\ web'.pages = web.pages
  BY DEF QInv, SearchTyped, Searches, SearchSteps
<1>2. SearchTyped' /\ FetchesTyped'
  BY <1>1 DEF QInv, SearchTyped, FetchesTyped
<1>3. NotYet' /\ PagesAgree' /\ OutcomeAgrees' /\ BundleAgrees'
  BY <1>1 DEF QInv, NotYet, Early, PagesAgree, OutcomeAgrees, BundleAgrees
<1> QED BY <1>1, <1>2, <1>3

(* The mode is resolved once, before either side begins.                   *)
LEMMA BeginKeeps == ASSUME QInv, Begin PROVE QInv'
<1>1. /\ UNCHANGED <<ask, task, late, cancelled, cache, sent, bundle>>
      /\ main = "policy" /\ web.pc = "idle" /\ bundle = Nothing
      /\ Resolved' = Resolved
  BY DEF Begin, QInv, LeaveAgrees, SessionAgrees, Resolved
<1>2. CASE main' = "error" /\ UNCHANGED <<decision, local, web>>
  <2>1. LocalFrame
    BY <1>1, <1>2 DEF LocalFrame
  <2>2. QuestionTyped' /\ LeaveAgrees' /\ SessionAgrees'
    BY <1>1, <1>2 DEF QInv, QuestionTyped, LeaveAgrees, SessionAgrees
  <2> QED BY <1>1, <1>2, <2>1, <2>2, LocalKeeps, BundleKept DEF QInv
<1>3. CASE /\ decision' = Resolved /\ local' = [local EXCEPT !.pc = "pointers"]
           /\ decision'.effective = "hybrid"
           /\ main' = "together" /\ web' = [web EXCEPT !.pc = "begin"]
  <2>1. QuestionTyped'
    BY <1>1, <1>3 DEF QInv, QuestionTyped
  <2>2. SearchTyped' /\ FetchesTyped' /\ NotYet' /\ PagesAgree' /\ OutcomeAgrees'
          /\ BundleAgrees' /\ web'.pc = "begin"
    BY <1>1, <1>3, SearchBegins
  <2>3. LeaveAgrees' /\ SessionAgrees'
    BY <1>1, <1>3, <2>2 DEF LeaveAgrees, SessionAgrees
  <2> QED BY <2>1, <2>2, <2>3 DEF QInv
<1>4. CASE /\ decision' = Resolved /\ local' = [local EXCEPT !.pc = "pointers"]
           /\ main' = "local" /\ UNCHANGED web
  <2>1. QuestionTyped'
    BY <1>1, <1>4 DEF QInv, QuestionTyped
  <2>2. LeaveAgrees' /\ SessionAgrees' /\ BundleAgrees'
    BY <1>1, <1>4 DEF LeaveAgrees, SessionAgrees, BundleAgrees
  <2>3. LocalFrame
    BY <1>1, <1>4 DEF LocalFrame
  <2> QED BY <2>1, <2>2, <2>3, LocalKeeps DEF QInv
<1> QED BY <1>2, <1>3, <1>4 DEF Begin


(* The bundle is given.                                                    *)
LEMMA BundleGiven ==
  ASSUME QInv, UNCHANGED <<ask, decision, local, web, task, late, cancelled, cache, sent>>,
         main' = "done", decision = Resolved, main # "policy", web'.pc # "idle" \/ ~sent,
         main \in {"local", "web", "await"},
         Sound(bundle'), ~bundle'.triggered => ~sent /\ web.pc \in {"idle", "returned"},
         main \in {"local", "web"} => local.pc \in {"done", "failed"}
  PROVE  QInv'
<1>1. Resolved' = Resolved /\ LocalFrame
  BY DEF Resolved, LocalFrame
<1>2. QuestionTyped' /\ LeaveAgrees' /\ SessionAgrees'
  BY <1>1 DEF QInv, QuestionTyped, LeaveAgrees, SessionAgrees
<1>3. BundleAgrees'
  BY DEF BundleAgrees, Sound
<1> QED BY <1>1, <1>2, <1>3, LocalKeeps DEF QInv

(* A bundle without the web has a reason if it lacks the chunks too.       *)
LEMMA AloneIsSound ==
  ASSUME QInv, decision = Resolved, NEW o, o.triggered = FALSE,
         local.pc = "failed" => o.fallback # Nothing
  PROVE  /\ Sound(Bundled(local.chunks, {}, o, Nothing, local.pc = "failed"))
         /\ ~Bundled(local.chunks, {}, o, Nothing, local.pc = "failed").triggered
<1> DEFINE why == IF o.fallback # Nothing THEN o.fallback ELSE decision.fallback
           failed == local.pc = "failed"
           b == [triggered |-> o.triggered, status |-> o.status, fallback |-> why,
                 chunks |-> local.chunks, pages |-> {}, localFailed |-> failed]
<1>1. Bundled(local.chunks, {}, o, Nothing, failed) = b
  BY DEF Bundled
<1>2. decision.effective # decision.requested => decision.fallback # Nothing
  BY ResolvedIs DEF QInv, QuestionTyped
<1>3. local.chunks \subseteq Chunks
  BY DEF QInv, QuestionTyped
<1>4. failed => why # Nothing
  OBVIOUS
<1>5. decision.fallback # Nothing => why # Nothing
  OBVIOUS
<1> HIDE DEF why, failed
<1>6. /\ b.pages = {} /\ b.chunks = local.chunks /\ b.localFailed = failed
      /\ b.triggered = o.triggered /\ b.fallback = why
  OBVIOUS
<1> HIDE DEF b
<1>7. Sound(b) /\ ~b.triggered
  BY <1>2, <1>3, <1>4, <1>5, <1>6 DEF Sound, Apart
<1> QED BY <1>1, <1>7 DEF failed

(* main judges the chunks, and ends or searches.                           *)
LEMMA JudgeKeeps == ASSUME QInv, Judge PROVE QInv'
<1>1. /\ UNCHANGED <<ask, decision, local, task, late, cancelled, cache, sent>>
      /\ main = "local" /\ local.pc \in {"done", "failed"} /\ decision = Resolved
      /\ web.pc = "idle" /\ bundle = Nothing /\ Resolved' = Resolved
      /\ ~sent
  BY DEF Judge, QInv, LeaveAgrees, SessionAgrees, Resolved, NotYet
<1>2. ASSUME NEW o, WithoutWeb(o), o.triggered = FALSE, UNCHANGED web,
             local.pc = "failed" => o.fallback # Nothing
      PROVE  QInv'
  <2>1. main' = "done" /\ bundle' = Bundled(local.chunks, {}, o, Nothing, local.pc = "failed")
    BY <1>2 DEF WithoutWeb
  <2>2. Sound(bundle') /\ ~bundle'.triggered
    BY <1>1, <1>2, <2>1, AloneIsSound
  <2> QED BY <1>1, <1>2, <2>1, <2>2, BundleGiven
<1>3. CASE decision.effective = "knowledge_only"
  <2>1. CASE local.pc = "failed"
    <3>1. main' = "error" /\ UNCHANGED <<bundle, web>>
      BY <1>3, <2>1 DEF Judge
    <3>2. LocalFrame
      BY <1>1, <3>1 DEF LocalFrame
    <3>3. QuestionTyped' /\ LeaveAgrees' /\ SessionAgrees'
      BY <1>1, <3>1 DEF QInv, QuestionTyped, LeaveAgrees, SessionAgrees
    <3> QED BY <1>1, <3>1, <3>2, <3>3, LocalKeeps, BundleKept DEF QInv
  <2>2. CASE local.pc # "failed"
    <3> DEFINE o == Outcome(decision.status, FALSE, decision.fallback)
    <3>1. WithoutWeb(o) /\ UNCHANGED web
      BY <1>3, <2>2 DEF Judge
    <3>2. o.triggered = FALSE
      BY DEF Outcome
    <3> HIDE DEF o
    <3> QED BY <1>2, <2>2, <3>1, <3>2
  <2> QED BY <2>1, <2>2
<1>4. CASE decision.effective # "knowledge_only"
  <2>1. PICK fresh, uncovered \in BOOLEAN :
          IF ~Insufficient(fresh, uncovered)
          THEN WithoutWeb(Outcome("not_requested", FALSE, Nothing)) /\ UNCHANGED web
          ELSE IF cancelled
          THEN WithoutWeb(Outcome("failed", FALSE, "client_cancelled")) /\ UNCHANGED web
          ELSE main' = "web" /\ web' = [web EXCEPT !.pc = "begin"] /\ UNCHANGED bundle
    BY <1>4 DEF Judge
  <2>2. CASE ~Insufficient(fresh, uncovered)
    <3> DEFINE o == Outcome("not_requested", FALSE, Nothing)
    <3>1. WithoutWeb(o) /\ UNCHANGED web
      BY <2>1, <2>2
    <3>2. o.triggered = FALSE
      BY DEF Outcome
    <3>3. local.pc # "failed"
      BY <2>2 DEF Insufficient
    <3> HIDE DEF o
    <3> QED BY <1>2, <3>1, <3>2, <3>3
  <2>3. CASE Insufficient(fresh, uncovered) /\ cancelled
    <3> DEFINE o == Outcome("failed", FALSE, "client_cancelled")
    <3>1. WithoutWeb(o) /\ UNCHANGED web
      BY <2>1, <2>3
    <3>2. o.triggered = FALSE
      BY DEF Outcome
    <3>3. o.fallback # Nothing
      BY Limits DEF Outcome, Reasons
    <3> HIDE DEF o
    <3> QED BY <1>2, <3>1, <3>2, <3>3
  <2>4. CASE main' = "web" /\ web' = [web EXCEPT !.pc = "begin"] /\ UNCHANGED bundle
    <3>1. SearchTyped' /\ FetchesTyped' /\ NotYet' /\ PagesAgree' /\ OutcomeAgrees'
            /\ BundleAgrees' /\ web'.pc = "begin"
      BY <1>1, <2>4, SearchBegins
    <3>2. QuestionTyped' /\ LeaveAgrees' /\ SessionAgrees'
      BY <1>1, <1>4, <2>4, <3>1 DEF QInv, QuestionTyped, LeaveAgrees, SessionAgrees
    <3> QED BY <3>1, <3>2 DEF QInv
  <2> QED BY <2>1, <2>2, <2>3, <2>4
<1> QED BY <1>3, <1>4

(* main has both sides, one after the other.                               *)
LEMMA KnowledgeFirstKeeps == ASSUME QInv, KnowledgeFirst PROVE QInv'
<1>1. /\ UNCHANGED <<ask, decision, local, web, task, late, cancelled, cache, sent>>
      /\ main = "web" /\ main' = "done" /\ web.pc = "returned" /\ decision = Resolved
      /\ local.pc \in {"done", "failed"} /\ local.chunks \in SUBSET Chunks /\ ask \in Questions
  BY DEF KnowledgeFirst, QInv, LeaveAgrees, SessionAgrees, QuestionTyped
<1>2. Told(web.outcome) /\ (~web.outcome.triggered => ~sent)
  BY <1>1 DEF QInv, OutcomeAgrees
<1> DEFINE failed == local.pc = "failed"
           b == Merged(local.chunks, web.outcome, failed)
<1>3. bundle' = b /\ failed \in BOOLEAN
  BY DEF KnowledgeFirst
<1> HIDE DEF failed
<1>4. Sound(b) /\ b.triggered = web.outcome.triggered
  BY <1>1, <1>2, <1>3, MergedIsSound
<1> HIDE DEF b
<1>5. Sound(bundle') /\ (~bundle'.triggered => ~sent)
  BY <1>2, <1>3, <1>4
<1> QED BY <1>1, <1>5, BundleGiven

(* main goes on without the chunks only when it is late.                   *)
LEMMA HybridLocalKeeps == ASSUME QInv, HybridLocal PROVE QInv'
<1>1. /\ LocalFrame /\ UNCHANGED <<decision, local, cancelled, bundle>>
      /\ main = "together" /\ main' = "await" /\ late' \in BOOLEAN
      /\ local.pc \in {"pointers", "query"} => late'
      /\ Resolved' = Resolved
  BY DEF HybridLocal, LocalFrame, QInv, QuestionTyped, Resolved
<1>2. QuestionTyped' /\ LeaveAgrees' /\ SessionAgrees'
  BY <1>1 DEF QInv, QuestionTyped, LeaveAgrees, SessionAgrees, LocalFrame
<1> QED BY <1>1, <1>2, LocalKeeps, BundleKept DEF QInv

(* main gives what both threads brought before the deadline.               *)
LEMMA HybridWebKeeps == ASSUME QInv, HybridWeb PROVE QInv'
<1> DEFINE failed == late \/ local.pc = "failed"
           chunks == IF failed THEN {} ELSE local.chunks
<1>1. /\ UNCHANGED <<ask, decision, local, web, task, late, cancelled, cache, sent>>
      /\ main = "await" /\ main' = "done" /\ decision = Resolved
      /\ chunks \in SUBSET Chunks /\ ask \in Questions /\ failed \in BOOLEAN
  BY DEF HybridWeb, QInv, LeaveAgrees, QuestionTyped
<1>2. \/ web.pc = "returned" /\ bundle' = Merged(chunks, web.outcome, failed)
      \/ web.pc # "returned" /\ bundle' = Merged(chunks, TimedOut, failed)
  BY DEF HybridWeb
<1> HIDE DEF failed, chunks
<1>3. ASSUME NEW o, Told(o), bundle' = Merged(chunks, o, failed),
             ~o.triggered => ~sent /\ web.pc = "returned"
      PROVE  QInv'
  <2>1. Sound(bundle') /\ bundle'.triggered = o.triggered
    BY <1>1, <1>3, MergedIsSound
  <2>2. web.pc # "idle" \/ ~sent
    BY DEF QInv, NotYet
  <2> QED BY <1>1, <1>3, <2>1, <2>2, BundleGiven
<1>4. CASE web.pc = "returned" /\ bundle' = Merged(chunks, web.outcome, failed)
  BY <1>3, <1>4 DEF QInv, OutcomeAgrees
<1>5. CASE web.pc # "returned" /\ bundle' = Merged(chunks, TimedOut, failed)
  <2>1. Told(TimedOut)
    BY OutcomeIsTold DEF TimedOut, SearchStatuses, Reasons
  <2>2. TimedOut.triggered
    BY DEF TimedOut, Outcome
  <2> QED BY <1>3, <1>5, <2>1, <2>2
<1> QED BY <1>2, <1>4, <1>5

(* No step breaks what is agreed.                                          *)
LEMMA QInvStep == ASSUME QInv, [RetrievalNext]_retrievalVars PROVE QInv'
<1>1. CASE Main
  BY <1>1, BeginKeeps, JudgeKeeps, KnowledgeFirstKeeps, HybridLocalKeeps, HybridWebKeeps
  DEF Main
<1>2. CASE Local
  BY <1>2, ReadPointersKeeps, QueryKeeps DEF Local
<1>3. CASE Search
  BY <1>3, SearchKeepsQInv
<1>4. CASE Fetches
  BY <1>4, StartFetchKeeps, FetchKeeps DEF Fetches
<1>5. CASE Cancel
  BY <1>5, CancelKeeps
<1>6. CASE UNCHANGED retrievalVars
  <2>1. LocalFrame /\ UNCHANGED <<main, decision, local, late, cancelled, bundle>>
    BY <1>6 DEF retrievalVars, LocalFrame
  <2>2. QuestionTyped' /\ LeaveAgrees' /\ SessionAgrees'
    BY <2>1 DEF QInv, QuestionTyped, LeaveAgrees, SessionAgrees, LocalFrame, Resolved
  <2> QED BY <2>1, <2>2, LocalKeeps, BundleKept DEF QInv
<1> QED BY <1>1, <1>2, <1>3, <1>4, <1>5, <1>6 DEF RetrievalNext

(* It holds throughout.                                                    *)
LEMMA QInvariance == RetrievalSpec => []QInv
<1>1. QInv /\ [RetrievalNext]_retrievalVars => QInv'
  BY QInvStep
<1> QED BY <1>1, QInvInit, PTL DEF RetrievalSpec

(* Nothing leaves without leave: the provider is asked, and a page or a    *)
(* redirect fetched, only when the question, the switch, the role and the  *)
(* knowledge base allow it, at addresses the domain policy lets pass.      *)
THEOREM QuestionsStayInside ==
  RetrievalSpec => []NothingLeavesWithoutLeave
<1>1. QInv => NothingLeavesWithoutLeave
  <2> SUFFICES ASSUME QInv PROVE NothingLeavesWithoutLeave
    OBVIOUS
  <2>1. sent \/ task # NoTasks => web.pc # "idle"
    BY DEF QInv, NotYet, Early
  <2>2. web.pc # "idle" => Permitted
    BY ResolvedIs DEF QInv, LeaveAgrees, QuestionTyped, Permitted
  <2>3. \A u \in DOMAIN task : task[u].at \in Allowed
    BY DEF QInv, FetchesTyped, Fetchings, Targets
  <2> QED BY <2>1, <2>2, <2>3 DEF NothingLeavesWithoutLeave
<1> QED BY <1>1, QInvariance, PTL

(* A set has one cardinality, whichever module counts it.                  *)
LEMMA SameCount == \A S : Cardinality(S) = Cardinality(S)
BY DEF Cardinality, Cardinality

(* The audit of a bundle says whether the provider was asked and gives a   *)
(* reason for evidence that is missing; a success used every page that it  *)
(* selected.                                                               *)
THEOREM AuditsAreTrue == RetrievalSpec => []AuditIsTrue
<1>1. QInv => AuditIsTrue
  <2> SUFFICES ASSUME QInv PROVE AuditIsTrue
    OBVIOUS
  <2>1. RetrievalTypeOK
    <3>1. decision \in Decisions \union {Nothing}
      BY ResolvedIs DEF QInv, QuestionTyped
    <3>2. \A u \in DOMAIN task :
            /\ task[u].pc \in {"queued", "running", "done", "collected", "cancelled"}
            /\ task[u].at \in Urls /\ task[u].hops \in 0 .. MaxRedirects
      BY DEF QInv, FetchesTyped, Fetchings, Targets
    <3>3. DOMAIN task \subseteq Urls
      BY DEF QInv, FetchesTyped, Targets
    <3>4. /\ web.pc \in SearchSteps /\ web.excluded \subseteq {"excluded", "fetch_timeout"}
          /\ sent \in BOOLEAN /\ cache \in HitLists \union Cached \union {Nothing}
      BY DEF QInv, SearchTyped, Searches
    <3>5. QuestionTyped
      BY DEF QInv
    <3> QED BY <3>1, <3>2, <3>3, <3>4, <3>5 DEF RetrievalTypeOK, QuestionTyped, SearchSteps
  <2>2. bundle # Nothing =>
          /\ sent => bundle.triggered
          /\ decision.effective # decision.requested => bundle.fallback # Nothing
          /\ bundle.localFailed => bundle.fallback # Nothing
          /\ bundle.triggered /\ bundle.pages = {} => bundle.fallback # Nothing
    BY DEF QInv, BundleAgrees, Sound
  <2>3. web.pc = "returned" /\ web.outcome.status = "success" =>
          /\ \A u \in DOMAIN task : task[u].pc = "collected"
          /\ Cardinality(web.outcome.pages) = Cardinality(DOMAIN task)
    BY SameCount DEF QInv, OutcomeAgrees, AllIn
  <2> QED BY <2>1, <2>2, <2>3, Zenon DEF AuditIsTrue
<1> QED BY <1>1, QInvariance, PTL

(* No text is twice in the evidence, and none is one the sanitizer would   *)
(* change.                                                                 *)
THEOREM EvidenceStaysDistinctAndClean ==
  RetrievalSpec => []EvidenceIsDistinctAndClean
<1>1. QInv => EvidenceIsDistinctAndClean
  <2>1. \A c \in Chunks : c.text \in CleanTexts
    BY ChunksAreClean
  <2>2. \A p \in Pages : p.text \in CleanTexts
    BY DEF Pages
  <2> QED BY <2>1, <2>2 DEF QInv, BundleAgrees, Sound, Apart, CleanTexts,
                            EvidenceIsDistinctAndClean
<1> QED BY <1>1, QInvariance, PTL

(* Only after the deadline of hybrid may the local thread still use the    *)
(* session of the request when main goes on.                               *)
THEOREM SessionsAreSharedOnlyWhenLate ==
  RetrievalSpec => []SessionIsSharedOnlyWhenLate
<1>1. QInv => SessionIsSharedOnlyWhenLate
  BY DEF QInv, SessionAgrees, SessionIsSharedOnlyWhenLate
<1> QED BY <1>1, QInvariance, PTL

-----------------------------------------------------------------------------
(* A fold as a chain: what it has after each position.                     *)
Chain(h, b, F, n) == h[0] = b /\ \A i \in 1 .. n : h[i] = F[i][h[i - 1]]

(* The first positions, without the last of them, are those before it.     *)
LEMMA FirstPositions ==
  ASSUME NEW n \in Nat, NEW i \in 1 .. n
  PROVE  /\ 1 .. i \in SUBSET (1 .. n) /\ 1 .. i # {}
         /\ Greatest(1 .. i) = i /\ (1 .. i) \ {Greatest(1 .. i)} = 1 .. (i - 1)
<1>1. 1 .. i \in SUBSET (1 .. n) /\ i \in 1 .. i
  OBVIOUS
<1>2. Greatest(1 .. i) \in 1 .. i /\ i <= Greatest(1 .. i)
  BY <1>1, GreatestIs
<1>3. Greatest(1 .. i) = i
  BY <1>2
<1> QED BY <1>1, <1>3

(* A fold within A is a chain within A.                                    *)
LEMMA FoldIsChain ==
  ASSUME NEW n \in Nat, NEW A, NEW b \in A, NEW F \in [1 .. n -> [A -> A]],
         NEW g, Folds(g, b, F, n)
  PROVE  \E h \in [0 .. n -> A] : Chain(h, b, F, n) /\ g[1 .. n] = h[n]
<1> DEFINE h == [i \in 0 .. n |-> g[1 .. i]]
<1>1. h[0] = b
  <2>1. 1 .. 0 = {} /\ 1 .. 0 \in SUBSET (1 .. n)
    OBVIOUS
  <2>2. g[1 .. 0] = b
    BY <2>1 DEF Folds
  <2> QED BY <2>2
<1>2. ASSUME NEW i \in 1 .. n PROVE h[i] = F[i][h[i - 1]]
  <2>1. g[1 .. i] = F[i][g[1 .. (i - 1)]]
    BY FirstPositions DEF Folds
  <2>2. i \in 0 .. n /\ i - 1 \in 0 .. n
    OBVIOUS
  <2> QED BY <2>1, <2>2
<1>3. Chain(h, b, F, n)
  BY <1>1, <1>2 DEF Chain
<1>4. h[n] = g[1 .. n] /\ DOMAIN h = 0 .. n /\ h = [i \in 0 .. n |-> h[i]]
  OBVIOUS
<1> HIDE DEF h
<1> DEFINE T == {k \in Nat : k <= n => h[k] \in A}
<1>5. 0 \in T
  BY <1>1
<1>6. ASSUME NEW k \in Nat, k \in T PROVE k + 1 \in T
  <2> SUFFICES ASSUME k + 1 <= n PROVE h[k + 1] \in A
    OBVIOUS
  <2>1. k + 1 \in 1 .. n /\ (k + 1) - 1 = k /\ h[k] \in A
    BY <1>6
  <2>2. h[k + 1] = F[k + 1][h[k]]
    BY <2>1, <1>2
  <2>3. F[k + 1] \in [A -> A]
    BY <2>1
  <2> QED BY <2>1, <2>2, <2>3
<1>7. \A k \in Nat : k \in T
  <2> HIDE DEF T
  <2> QED BY <1>5, <1>6, SetInduction
<1>8. h \in [0 .. n -> A]
  <2>1. \A i \in 0 .. n : h[i] \in A
    BY <1>7
  <2> QED BY <2>1, <1>4
<1> QED BY <1>3, <1>4, <1>8

(* Every step of A within A has a fold, and it is a chain.                 *)
EndsAChain(g, A, b, F, n) ==
  \E h \in [0 .. n -> A] : Chain(h, b, F, n) /\ g[1 .. n] = h[n]

(* So there is a fold and a chain that end in the same.                    *)
LEMMA FoldWithChain ==
  ASSUME NEW n \in Nat, NEW A, NEW b \in A, NEW F \in [1 .. n -> [A -> A]]
  PROVE  \E g \in [SUBSET (1 .. n) -> A] : Folds(g, b, F, n) /\ EndsAChain(g, A, b, F, n)
<1>1. PICK g \in [SUBSET (1 .. n) -> A] : Folds(g, b, F, n)
  BY FoldExists
<1>2. EndsAChain(g, A, b, F, n)
  BY <1>1, FoldIsChain DEF EndsAChain
<1> QED BY <1>1, <1>2

(* The sum a length is made of, as the model folds it.                     *)
UnfoldsSum(g, c) ==
  g = [s \in SUBSET (DOMAIN c) |-> IF s = {} THEN 0
         ELSE g[s \ {Greatest(s)}] + Overhead + c[Greatest(s)]]

Commas(c) == IF c = <<>> THEN 0 ELSE Len(c) - 1

(* The length is that of the fold.                                         *)
LEMMA SumIs ==
  ASSUME NEW c, NEW f, UnfoldsSum(f, c)
  PROVE  \E h : UnfoldsSum(h, c) /\ Length(c) = 2 + h[DOMAIN c] + Commas(c)
<1> DEFINE h == CHOOSE g : UnfoldsSum(g, c)
<1>1. Length(c) = 2 + h[DOMAIN c] + Commas(c)
  BY DEF Length, Commas, FoldLeft, MapThenFoldSet, Max, Greatest, UnfoldsSum
<1>2. UnfoldsSum(h, c)
  OBVIOUS
<1> QED BY <1>1, <1>2

(* What is summed up after each source.                                    *)
Sums(h, c) == /\ h \in [0 .. Len(c) -> Nat] /\ h[0] = 0
              /\ \A i \in 1 .. Len(c) : h[i] = h[i - 1] + Overhead + c[i]

(* The length of a list of sources is the last of the sums.                *)
LEMMA LengthIs ==
  ASSUME NEW c \in Seq(Nat)
  PROVE  \E h : Sums(h, c) /\ Length(c) = 2 + h[Len(c)] + Commas(c)
<1> DEFINE n == Len(c)
           F == [i \in 1 .. n |-> [s \in Nat |-> s + Overhead + c[i]]]
<1>1. n \in Nat /\ DOMAIN c = 1 .. n /\ Overhead \in Nat
  BY Settings
<1>2. \A i \in 1 .. n : c[i] \in Nat
  OBVIOUS
<1>3. F \in [1 .. n -> [Nat -> Nat]]
  <2>1. \A i \in 1 .. n : \A s \in Nat : s + Overhead + c[i] \in Nat
    BY <1>1, <1>2
  <2> QED BY <2>1
<1>4. \A i \in 1 .. n : \A s \in Nat : F[i][s] = s + Overhead + c[i]
  OBVIOUS
<1> HIDE DEF n, F
<1>5. PICK g \in [SUBSET (1 .. n) -> Nat] :
          Folds(g, 0, F, n) /\ EndsAChain(g, Nat, 0, F, n)
  BY <1>1, <1>3, FoldWithChain
<1>6. ASSUME NEW s \in SUBSET (1 .. n)
      PROVE  g[s] = IF s = {} THEN 0 ELSE g[s \ {Greatest(s)}] + Overhead + c[Greatest(s)]
  <2>1. CASE s = {}
    BY <1>5, <2>1 DEF Folds
  <2>2. CASE s # {}
    <3>1. Greatest(s) \in 1 .. n /\ s \ {Greatest(s)} \in SUBSET (1 .. n)
      BY <1>1, <2>2, GreatestIs
    <3>2. g[s \ {Greatest(s)}] \in Nat
      BY <3>1
    <3>3. g[s] = F[Greatest(s)][g[s \ {Greatest(s)}]]
      BY <1>5, <2>2 DEF Folds
    <3> QED BY <1>4, <2>2, <3>1, <3>2, <3>3
  <2> QED BY <2>1, <2>2
<1>7. UnfoldsSum(g, c)
  <2>1. DOMAIN g = SUBSET (DOMAIN c) /\ g = [s \in SUBSET (DOMAIN c) |-> g[s]]
    BY <1>1
  <2> QED BY <1>1, <1>6, <2>1 DEF UnfoldsSum
<1>8. PICK f : UnfoldsSum(f, c) /\ Length(c) = 2 + f[DOMAIN c] + Commas(c)
  BY <1>7, SumIs
<1>9. \A s \in SUBSET (1 .. n) :
        f[s] = IF s = {} THEN 0 ELSE f[s \ {Greatest(s)}] + Overhead + c[Greatest(s)]
  BY <1>1, <1>8 DEF UnfoldsSum
<1> DEFINE A == {s \in SUBSET (1 .. n) : f[s] = g[s]}
<1>10. {} \in A
  BY <1>6, <1>9
<1>11. \A s \in SUBSET (1 .. n) : s # {} /\ s \ {Greatest(s)} \in A => s \in A
  BY <1>6, <1>9
<1>12. \A s \in SUBSET (1 .. n) : s \in A
  <2> HIDE DEF A
  <2> QED BY <1>1, <1>10, <1>11, PeelInduction
<1>13. f[1 .. n] = g[1 .. n]
  BY <1>12
<1>14. PICK h \in [0 .. n -> Nat] : Chain(h, 0, F, n) /\ g[1 .. n] = h[n]
  BY <1>5 DEF EndsAChain
<1>15. \A i \in 1 .. n : i - 1 \in 0 .. n /\ h[i] = F[i][h[i - 1]]
  BY <1>1, <1>14 DEF Chain
<1>16. \A i \in 1 .. n : h[i - 1] \in Nat
  BY <1>1, <1>14, <1>15
<1>17. \A i \in 1 .. n : h[i] = h[i - 1] + Overhead + c[i]
  BY <1>4, <1>15, <1>16
<1>18. Sums(h, c)
  BY <1>14, <1>17 DEF Sums, Chain, n
<1>19. Length(c) = 2 + h[n] + Commas(c)
  BY <1>1, <1>8, <1>13, <1>14
<1> QED BY <1>18, <1>19 DEF n

(* Sums do not depend on how they were found.                              *)
LEMMA SumsAgree ==
  ASSUME NEW c \in Seq(Nat), NEW d \in Seq(Nat), NEW g, NEW h, Sums(g, c), Sums(h, d),
         NEW m \in Nat, m <= Len(c), m <= Len(d), \A i \in 1 .. m : c[i] = d[i]
  PROVE  g[m] = h[m]
<1> DEFINE T == {k \in Nat : k <= m => g[k] = h[k]}
<1>1. 0 \in T
  BY DEF Sums
<1>2. ASSUME NEW k \in Nat, k \in T PROVE k + 1 \in T
  <2> SUFFICES ASSUME k + 1 <= m PROVE g[k + 1] = h[k + 1]
    OBVIOUS
  <2>1. k + 1 \in 1 .. m /\ k + 1 \in 1 .. Len(c) /\ k + 1 \in 1 .. Len(d)
          /\ (k + 1) - 1 = k /\ g[k] = h[k]
    BY <1>2
  <2> QED BY <2>1 DEF Sums
<1>3. \A k \in Nat : k \in T
  <2> HIDE DEF T
  <2> QED BY <1>1, <1>2, SetInduction
<1> QED BY <1>3

(* The length without the brackets and commas; one more source adds its own*)
(* length and the rest of its JSON object.                                 *)
LEMMA LengthOfNone == Length(<<>>) = 2
<1>1. PICK h : Sums(h, <<>>) /\ Length(<<>>) = 2 + h[Len(<<>>)] + Commas(<<>>)
  <2>1. <<>> \in Seq(Nat)
    OBVIOUS
  <2> QED BY <2>1, LengthIs
<1>2. Len(<<>>) = 0 /\ Commas(<<>>) = 0
  BY DEF Commas
<1> QED BY <1>1, <1>2 DEF Sums

(* A list has the length of its brackets at least.                         *)
LEMMA LengthIsNat ==
  ASSUME NEW c \in Seq(Nat)
  PROVE  Length(c) \in Nat /\ Length(c) >= 2
<1>1. PICK h : Sums(h, c) /\ Length(c) = 2 + h[Len(c)] + Commas(c)
  BY LengthIs
<1>2. h[Len(c)] \in Nat
  BY <1>1 DEF Sums
<1>3. Commas(c) \in Nat
  BY DEF Commas
<1> QED BY <1>1, <1>2, <1>3

(* One more source, and one more comma between two.                        *)
LEMMA LengthOfAppend ==
  ASSUME NEW c \in Seq(Nat), NEW x \in Nat
  PROVE  Length(Append(c, x))
           = Length(c) + Overhead + x + (IF c = <<>> THEN 0 ELSE 1)
<1> DEFINE d == Append(c, x)
           n == Len(c)
<1>1. d \in Seq(Nat) /\ n \in Nat /\ Len(d) = n + 1 /\ d[n + 1] = x /\ d # <<>>
      /\ \A i \in 1 .. n : d[i] = c[i]
  OBVIOUS
<1>2. n = 0 <=> c = <<>>
  OBVIOUS
<1> HIDE DEF d
<1>3. PICK g : Sums(g, c) /\ Length(c) = 2 + g[n] + Commas(c)
  BY LengthIs
<1>4. PICK h : Sums(h, d) /\ Length(d) = 2 + h[Len(d)] + Commas(d)
  BY <1>1, LengthIs
<1>5. g[n] = h[n]
  <2>1. n <= Len(c) /\ n <= Len(d) /\ \A i \in 1 .. n : c[i] = d[i]
    BY <1>1
  <2> HIDE DEF n
  <2> QED BY <1>1, <1>3, <1>4, <2>1, SumsAgree
<1>6. n + 1 \in 1 .. Len(d) /\ (n + 1) - 1 = n /\ n \in 0 .. Len(c) /\ n + 1 \in 0 .. Len(d)
  BY <1>1
<1>7. h[n + 1] = h[n] + Overhead + x /\ g[n] \in Nat /\ h[n + 1] \in Nat
  BY <1>1, <1>3, <1>4, <1>6 DEF Sums
<1>8. Overhead \in Nat
  BY Settings
<1> HIDE DEF n
<1>9. Commas(d) = n /\ Commas(c) = (IF c = <<>> THEN 0 ELSE n - 1)
  BY <1>1 DEF Commas, n
<1>10. CASE c = <<>>
  BY <1>1, <1>2, <1>3, <1>4, <1>5, <1>7, <1>8, <1>9, <1>10 DEF d
<1>11. CASE c # <<>>
  <2>1. n \in Nat /\ Len(d) = n + 1 /\ Commas(c) = n - 1
    BY <1>1, <1>9, <1>11
  <2>2. Length(d) = 2 + h[n + 1] + n /\ Length(c) = 2 + g[n] + (n - 1)
    BY <1>3, <1>4, <1>9, <2>1
  <2>a. \A p, o, i \in Nat : 2 + (p + o + x) + i = (2 + p + (i - 1)) + o + x + 1
    OBVIOUS
  <2>b. 2 + (g[n] + Overhead + x) + n = (2 + g[n] + (n - 1)) + Overhead + x + 1
    BY <1>7, <1>8, <2>1, <2>a, Zenon
  <2>3. Length(d) = Length(c) + Overhead + x + 1
    BY <1>5, <1>7, <2>2, <2>b, Zenon
  <2> QED BY <1>11, <2>3 DEF d
<1> QED BY <1>10, <1>11

(* Two lists put together are one comma and a pair of brackets shorter.    *)
LEMMA LengthOfBoth ==
  ASSUME NEW a \in Seq(Nat), NEW b \in Seq(Nat)
  PROVE  Length(a \o b) = IF a = <<>> THEN Length(b) ELSE IF b = <<>> THEN Length(a)
                          ELSE Length(a) + Length(b) - 1
<1> DEFINE d == a \o b
           n == Len(a)
           m == Len(b)
<1>1. /\ d \in Seq(Nat) /\ n \in Nat /\ m \in Nat /\ Len(d) = n + m
      /\ \A i \in 1 .. n : d[i] = a[i]
      /\ \A i \in 1 .. m : d[n + i] = b[i] /\ b[i] \in Nat
  OBVIOUS
<1>2. (n = 0 <=> a = <<>>) /\ (m = 0 <=> b = <<>>) /\ (n + m = 0 <=> d = <<>>)
  OBVIOUS
<1> HIDE DEF d
<1>3. PICK f : Sums(f, a) /\ Length(a) = 2 + f[n] + Commas(a)
  BY LengthIs
<1>4. PICK g : Sums(g, b) /\ Length(b) = 2 + g[m] + Commas(b)
  BY LengthIs
<1>5. PICK h : Sums(h, d) /\ Length(d) = 2 + h[n + m] + Commas(d)
  BY <1>1, LengthIs
<1>6. f[n] = h[n]
  <2>1. /\ n <= Len(a) /\ n <= Len(d) /\ \A i \in 1 .. n : a[i] = d[i]
        /\ n \in Nat /\ d \in Seq(Nat)
    BY <1>1
  <2>2. Sums(f, a) /\ Sums(h, d)
    BY <1>3, <1>5
  <2> HIDE DEF n
  <2> QED BY <2>1, <2>2, SumsAgree
<1>7. Overhead \in Nat /\ f[n] \in Nat
  <2>1. n \in 0 .. Len(a)
    BY <1>1
  <2> QED BY <1>3, <2>1, Settings DEF Sums
<1> HIDE DEF n, m
<1> DEFINE T == {k \in Nat : k <= m => h[n + k] = f[n] + g[k]}
<1>8. 0 \in T
  BY <1>1, <1>4, <1>6, <1>7 DEF Sums
<1>9. ASSUME NEW k \in Nat, k \in T PROVE k + 1 \in T
  <2> SUFFICES ASSUME k + 1 <= m PROVE h[n + (k + 1)] = f[n] + g[k + 1]
    OBVIOUS
  <2>1. /\ k + 1 \in 1 .. m /\ (k + 1) - 1 = k /\ h[n + k] = f[n] + g[k]
        /\ n + (k + 1) \in 1 .. n + m /\ (n + (k + 1)) - 1 = n + k /\ k \in 0 .. m
    BY <1>1, <1>9
  <2>2. h[n + (k + 1)] = h[n + k] + Overhead + d[n + (k + 1)]
    BY <1>1, <1>5, <2>1 DEF Sums
  <2>3. g[k + 1] = g[k] + Overhead + b[k + 1] /\ g[k] \in Nat
    BY <1>4, <2>1 DEF Sums, m
  <2>4. d[n + (k + 1)] = b[k + 1] /\ b[k + 1] \in Nat
    BY <1>1, <2>1
  <2> QED BY <1>7, <2>1, <2>2, <2>3, <2>4
<1>10. m \in T
  <2> HIDE DEF T
  <2> QED BY <1>1, <1>8, <1>9, SetInduction
<1>11. h[n + m] = f[n] + g[m]
  BY <1>1, <1>10
<1>12. g[m] \in Nat
  <2>1. m \in 0 .. Len(b)
    BY <1>1 DEF m
  <2> QED BY <1>4, <2>1 DEF Sums
<1>13. /\ Commas(a) = (IF n = 0 THEN 0 ELSE n - 1) /\ Commas(b) = (IF m = 0 THEN 0 ELSE m - 1)
       /\ Commas(d) = (IF n + m = 0 THEN 0 ELSE n + m - 1)
  BY <1>1, <1>2 DEF Commas, n, m
<1>14. CASE a = <<>>
  <2>1. f[n] = 0
    BY <1>2, <1>3, <1>14 DEF Sums
  <2> QED BY <1>1, <1>2, <1>4, <1>5, <1>11, <1>12, <1>13, <1>14, <2>1 DEF d
<1>15. CASE a # <<>> /\ b = <<>>
  <2>1. g[m] = 0
    BY <1>2, <1>4, <1>15 DEF Sums
  <2> QED BY <1>1, <1>2, <1>3, <1>5, <1>7, <1>11, <1>13, <1>15, <2>1 DEF d
<1>16. CASE a # <<>> /\ b # <<>>
  <2>1. /\ Commas(a) = n - 1 /\ Commas(b) = m - 1 /\ Commas(d) = n + m - 1
    BY <1>1, <1>2, <1>13, <1>16
  <2>2. n \in Nat /\ m \in Nat
    BY <1>1
  <2>3. /\ Length(d) = 2 + (f[n] + g[m]) + (n + m - 1)
        /\ Length(a) = 2 + f[n] + (n - 1) /\ Length(b) = 2 + g[m] + (m - 1)
    BY <1>3, <1>4, <1>5, <1>11, <2>1
  <2>4. \A p, q \in Nat :
          2 + (p + q) + (n + m - 1) = (2 + p + (n - 1)) + (2 + q + (m - 1)) - 1
    BY <2>2
  <2>5. 2 + (f[n] + g[m]) + (n + m - 1) = (2 + f[n] + (n - 1)) + (2 + g[m] + (m - 1)) - 1
    BY <1>7, <1>12, <2>4, Zenon
  <2>6. Length(d) = Length(a) + Length(b) - 1
    BY <2>3, <2>5, Zenon
  <2> QED BY <1>16, <2>6 DEF d
<1> QED BY <1>14, <1>15, <1>16

(* One source more in a list of sources, as the context is built.          *)
Filling == [taken : Seq(Nat \ {0}), full : BOOLEAN]
Room(s, b) == b - Length(Append(s.taken, 0))
AddTo(s, x, b) ==
  IF s.full THEN s
  ELSE IF x <= Room(s, b) THEN [s EXCEPT !.taken = Append(@, x)]
  ELSE [taken |-> IF Room(s, b) >= 1 THEN Append(s.taken, Room(s, b)) ELSE s.taken,
        full |-> TRUE]
NothingTaken == [taken |-> <<>>, full |-> FALSE]

(* The cases of a source, by the room there is.                            *)
LEMMA AddCases ==
  ASSUME NEW s \in Filling, NEW x \in Nat \ {0}, NEW b \in Int
  PROVE  /\ AddTo(s, x, b) \in Filling /\ Room(s, b) \in Int
         /\ s.full => AddTo(s, x, b) = s
         /\ ~s.full =>
              \/ /\ x <= Room(s, b) /\ ~AddTo(s, x, b).full
                 /\ AddTo(s, x, b).taken = Append(s.taken, x)
              \/ /\ Room(s, b) < x /\ Room(s, b) \in Nat \ {0} /\ AddTo(s, x, b).full
                 /\ AddTo(s, x, b).taken = Append(s.taken, Room(s, b))
              \/ /\ Room(s, b) < 1 /\ AddTo(s, x, b).full
                 /\ AddTo(s, x, b).taken = s.taken
<1>1. s.taken \in Seq(Nat \ {0}) /\ s.full \in BOOLEAN /\ x \in Nat
  BY DEF Filling
<1>2. Append(s.taken, 0) \in Seq(Nat)
  BY <1>1
<1>3. Room(s, b) \in Int
  <2>1. Length(Append(s.taken, 0)) \in Nat
    BY <1>2, LengthIsNat
  <2>2. \A k \in Nat : b - k \in Int
    OBVIOUS
  <2> QED BY <2>1, <2>2, Zenon DEF Room
<1>4. CASE s.full
  BY <1>3, <1>4 DEF AddTo
<1>5. CASE ~s.full /\ x <= Room(s, b)
  <2>1. AddTo(s, x, b) = [s EXCEPT !.taken = Append(@, x)]
    BY <1>5 DEF AddTo
  <2>2. AddTo(s, x, b).taken = Append(s.taken, x)
    BY <2>1 DEF Filling
  <2>3. ~AddTo(s, x, b).full
    BY <1>5, <2>1 DEF Filling
  <2>4. Append(s.taken, x) \in Seq(Nat \ {0})
    BY <1>1
  <2>5. AddTo(s, x, b) \in Filling
    BY <2>1, <2>4 DEF Filling
  <2> QED BY <1>3, <1>5, <2>2, <2>3, <2>5
<1>6. CASE ~s.full /\ ~(x <= Room(s, b)) /\ Room(s, b) >= 1
  <2>1. AddTo(s, x, b) = [taken |-> Append(s.taken, Room(s, b)), full |-> TRUE]
    BY <1>6 DEF AddTo
  <2>2. Room(s, b) < x /\ Room(s, b) \in Nat \ {0}
    BY <1>1, <1>3, <1>6
  <2>3. Append(s.taken, Room(s, b)) \in Seq(Nat \ {0})
    BY <1>1, <2>2
  <2>4. AddTo(s, x, b) \in Filling
    BY <2>1, <2>3 DEF Filling
  <2>5. AddTo(s, x, b).full
    BY <2>1
  <2>6. AddTo(s, x, b).taken = Append(s.taken, Room(s, b))
    BY <2>1
  <2> QED BY <1>3, <1>6, <2>2, <2>4, <2>5, <2>6
<1>7. CASE ~s.full /\ ~(x <= Room(s, b)) /\ ~(Room(s, b) >= 1)
  <2>1. AddTo(s, x, b) = [taken |-> s.taken, full |-> TRUE]
    BY <1>7 DEF AddTo
  <2>2. Room(s, b) < 1
    BY <1>3, <1>7
  <2>3. AddTo(s, x, b) \in Filling
    BY <1>1, <2>1 DEF Filling
  <2>4. AddTo(s, x, b).full
    BY <2>1
  <2>5. AddTo(s, x, b).taken = s.taken
    BY <2>1
  <2> QED BY <1>3, <1>7, <2>2, <2>3, <2>4, <2>5
<1> QED BY <1>4, <1>5, <1>6, <1>7

(* The context of the model is a fold of these.                            *)
UnfoldsContext(g, c, b) ==
  g = [s \in SUBSET (DOMAIN c) |-> IF s = {} THEN NothingTaken
         ELSE AddTo(g[s \ {Greatest(s)}], c[Greatest(s)], b)]

(* And the model takes what has been taken at the end of it.               *)
LEMMA ContextIsFold ==
  ASSUME NEW c, NEW b, NEW f, UnfoldsContext(f, c, b)
  PROVE  \E h : UnfoldsContext(h, c, b) /\ BuildContext(c, b) = h[DOMAIN c].taken
<1> DEFINE h == CHOOSE g : UnfoldsContext(g, c, b)
<1>1. BuildContext(c, b) = h[DOMAIN c].taken
  BY DEF BuildContext, FoldLeft, MapThenFoldSet, Max, Greatest, UnfoldsContext, AddTo,
         Room, NothingTaken
<1>2. UnfoldsContext(h, c, b)
  OBVIOUS
<1> QED BY <1>1, <1>2

(* What has been taken after each source.                                  *)
Fills(h, c, b) == /\ h \in [0 .. Len(c) -> Filling] /\ h[0] = NothingTaken
                  /\ \A i \in 1 .. Len(c) : h[i] = AddTo(h[i - 1], c[i], b)

(* The context is what has been taken in the end.                          *)
LEMMA ContextIs ==
  ASSUME NEW c \in Seq(Nat \ {0}), NEW b \in Int
  PROVE  \E h : Fills(h, c, b) /\ BuildContext(c, b) = h[Len(c)].taken
<1> DEFINE n == Len(c)
           F == [i \in 1 .. n |-> [s \in Filling |-> AddTo(s, c[i], b)]]
<1>1. n \in Nat /\ DOMAIN c = 1 .. n
  OBVIOUS
<1>2. \A i \in 1 .. n : c[i] \in Nat \ {0}
  OBVIOUS
<1>3. NothingTaken \in Filling
  BY DEF NothingTaken, Filling
<1>4. F \in [1 .. n -> [Filling -> Filling]]
  <2>1. \A i \in 1 .. n : \A s \in Filling : AddTo(s, c[i], b) \in Filling
    BY <1>2, AddCases
  <2> QED BY <2>1
<1>5. \A i \in 1 .. n : \A s \in Filling : F[i][s] = AddTo(s, c[i], b)
  OBVIOUS
<1> HIDE DEF n, F
<1>6. PICK g \in [SUBSET (1 .. n) -> Filling] :
          Folds(g, NothingTaken, F, n) /\ EndsAChain(g, Filling, NothingTaken, F, n)
  BY <1>1, <1>3, <1>4, FoldWithChain
<1>7. ASSUME NEW s \in SUBSET (1 .. n)
      PROVE  g[s] = IF s = {} THEN NothingTaken
                    ELSE AddTo(g[s \ {Greatest(s)}], c[Greatest(s)], b)
  <2>1. CASE s = {}
    BY <1>6, <2>1 DEF Folds
  <2>2. CASE s # {}
    <3>1. Greatest(s) \in 1 .. n /\ s \ {Greatest(s)} \in SUBSET (1 .. n)
      BY <1>1, <2>2, GreatestIs
    <3>2. g[s \ {Greatest(s)}] \in Filling
      BY <3>1
    <3>3. g[s] = F[Greatest(s)][g[s \ {Greatest(s)}]]
      BY <1>6, <2>2 DEF Folds
    <3> QED BY <1>5, <2>2, <3>1, <3>2, <3>3
  <2> QED BY <2>1, <2>2
<1>8. UnfoldsContext(g, c, b)
  <2>1. DOMAIN g = SUBSET (DOMAIN c) /\ g = [s \in SUBSET (DOMAIN c) |-> g[s]]
    BY <1>1
  <2> QED BY <1>1, <1>7, <2>1 DEF UnfoldsContext
<1>9. PICK f : UnfoldsContext(f, c, b) /\ BuildContext(c, b) = f[DOMAIN c].taken
  BY <1>8, ContextIsFold
<1>10. \A s \in SUBSET (1 .. n) :
         f[s] = IF s = {} THEN NothingTaken
                ELSE AddTo(f[s \ {Greatest(s)}], c[Greatest(s)], b)
  BY <1>1, <1>9 DEF UnfoldsContext
<1> DEFINE A == {s \in SUBSET (1 .. n) : f[s] = g[s]}
<1>11. {} \in A
  BY <1>7, <1>10
<1>12. \A s \in SUBSET (1 .. n) : s # {} /\ s \ {Greatest(s)} \in A => s \in A
  BY <1>7, <1>10
<1>13. \A s \in SUBSET (1 .. n) : s \in A
  <2> HIDE DEF A
  <2> QED BY <1>1, <1>11, <1>12, PeelInduction
<1>14. f[1 .. n] = g[1 .. n]
  BY <1>13
<1>15. PICK h \in [0 .. n -> Filling] : Chain(h, NothingTaken, F, n) /\ g[1 .. n] = h[n]
  BY <1>6 DEF EndsAChain
<1>16. \A i \in 1 .. n : h[i - 1] \in Filling /\ h[i] = F[i][h[i - 1]]
  BY <1>1, <1>15 DEF Chain
<1>17. \A i \in 1 .. n : h[i] = AddTo(h[i - 1], c[i], b)
  BY <1>5, <1>16
<1>18. Fills(h, c, b)
  BY <1>15, <1>17 DEF Fills, Chain, n
<1>19. BuildContext(c, b) = h[n].taken
  BY <1>1, <1>9, <1>14, <1>15
<1> QED BY <1>18, <1>19 DEF n

(* What is taken within the room there is stays within the budget.         *)
LEMMA AppendInRoom ==
  ASSUME NEW s \in Filling, NEW y \in Nat, NEW b \in Int, y <= Room(s, b)
  PROVE  Length(Append(s.taken, y)) <= b
<1>1. s.taken \in Seq(Nat)
  BY DEF Filling
<1>2. Append(s.taken, 0) \in Seq(Nat)
  BY <1>1
<1> DEFINE base == Length(s.taken) + Overhead + (IF s.taken = <<>> THEN 0 ELSE 1)
           l == Length(s.taken)
           comma == IF s.taken = <<>> THEN 0 ELSE 1
<1>3. l \in Nat /\ Overhead \in Nat /\ comma \in Nat
  BY <1>1, LengthIsNat, Settings
<1>4. /\ Length(Append(s.taken, y)) = l + Overhead + y + comma
      /\ Length(Append(s.taken, 0)) = l + Overhead + 0 + comma
  BY <1>1, LengthOfAppend
<1> HIDE DEF l, comma
<1>5. y <= b - (l + Overhead + 0 + comma)
  BY <1>4 DEF Room
<1>6. \A p, o, q \in Nat : y <= b - (p + o + 0 + q) => p + o + y + q <= b
  OBVIOUS
<1>7. l + Overhead + y + comma <= b
  BY <1>3, <1>5, <1>6, Zenon
<1> QED BY <1>4, <1>7

(* A context that has a source is within its budget, whatever was offered. *)
LEMMA ContextIsWithin ==
  ASSUME NEW c \in Seq(Nat \ {0}), NEW b \in Int
  PROVE  /\ BuildContext(c, b) \in Seq(Nat \ {0})
         /\ BuildContext(c, b) # <<>> => Length(BuildContext(c, b)) <= b
<1>1. PICK h : Fills(h, c, b) /\ BuildContext(c, b) = h[Len(c)].taken
  BY ContextIs
<1> DEFINE n == Len(c)
           Fitting(s) == s.taken # <<>> => Length(s.taken) <= b
<1>2. n \in Nat /\ \A i \in 1 .. n : c[i] \in Nat \ {0}
  OBVIOUS
<1>3. \A k \in 0 .. n : h[k] \in Filling
  BY <1>1 DEF Fills
<1>4. ASSUME NEW s \in Filling, NEW x \in Nat \ {0}, Fitting(s) PROVE Fitting(AddTo(s, x, b))
  <2>1. CASE s.full
    BY <1>4, <2>1, AddCases
  <2>2. CASE ~s.full /\ x <= Room(s, b) /\ AddTo(s, x, b).taken = Append(s.taken, x)
    <3>1. Length(Append(s.taken, x)) <= b
      BY <2>2, AppendInRoom
    <3> QED BY <2>2, <3>1
  <2>3. CASE /\ ~s.full /\ Room(s, b) \in Nat
             /\ AddTo(s, x, b).taken = Append(s.taken, Room(s, b))
    <3>1. Room(s, b) <= Room(s, b)
      BY <2>3
    <3>2. Length(Append(s.taken, Room(s, b))) <= b
      BY <2>3, <3>1, AppendInRoom
    <3> QED BY <2>3, <3>2
  <2>4. CASE ~s.full /\ AddTo(s, x, b).taken = s.taken
    BY <1>4, <2>4
  <2> QED BY <2>1, <2>2, <2>3, <2>4, AddCases
<1>5. Fitting(h[0])
  BY <1>1 DEF Fills, NothingTaken
<1> HIDE DEF n, Fitting
<1> DEFINE T == {k \in Nat : k <= n => Fitting(h[k])}
<1>6. 0 \in T
  BY <1>5
<1>7. ASSUME NEW k \in Nat, k \in T PROVE k + 1 \in T
  <2> SUFFICES ASSUME k + 1 <= n PROVE Fitting(h[k + 1])
    OBVIOUS
  <2>1. k + 1 \in 1 .. n /\ (k + 1) - 1 = k /\ k \in 0 .. n /\ Fitting(h[k])
    BY <1>2, <1>7
  <2>2. h[k + 1] = AddTo(h[k], c[k + 1], b)
    BY <1>1, <2>1 DEF Fills, n
  <2>3. h[k] \in Filling /\ c[k + 1] \in Nat \ {0}
    BY <1>2, <1>3, <2>1
  <2> QED BY <1>4, <2>1, <2>2, <2>3
<1>8. n \in T
  <2> HIDE DEF T
  <2> QED BY <1>2, <1>6, <1>7, SetInduction
<1>9. Fitting(h[n]) /\ h[n] \in Filling
  BY <1>2, <1>3, <1>8
<1>10. h[n].taken \in Seq(Nat \ {0})
  BY <1>9 DEF Filling
<1> QED BY <1>1, <1>9, <1>10 DEF Fitting, n

(* No source of s is new in t, and none is longer than t has it.           *)
Below(s, t) == \A i \in DOMAIN s : i \in DOMAIN t /\ s[i] <= t[i]

(* More sources, or a longer last one, do not come below.                  *)
LEMMA BelowAppend ==
  ASSUME NEW s \in Seq(Nat), NEW t \in Seq(Nat), NEW y \in Nat, NEW z \in Nat
  PROVE  /\ Below(s, s)
         /\ Below(s, t) => Below(s, Append(t, z))
         /\ y <= z => Below(Append(s, y), Append(s, z))
         /\ Below(s, Append(s, z))
<1>1. Below(s, s)
  BY DEF Below
<1>2. \A u \in Seq(Nat) : Below(s, u) => Below(s, Append(u, z))
  BY DEF Below
<1>3. y <= z => Below(Append(s, y), Append(s, z))
  BY DEF Below
<1> QED BY <1>1, <1>2, <1>3

(* Two lists, each below the other, are one.                               *)
LEMMA BelowBoth ==
  ASSUME NEW s \in Seq(Nat), NEW t \in Seq(Nat), Below(s, t), Below(t, s)
  PROVE  s = t
<1>1. DOMAIN s = DOMAIN t
  BY DEF Below
<1>2. \A i \in DOMAIN s : s[i] \in Nat /\ t[i] \in Nat /\ s[i] <= t[i] /\ t[i] <= s[i]
  BY <1>1 DEF Below
<1>3. \A i \in DOMAIN s : s[i] = t[i]
  BY <1>2
<1>4. s = [i \in DOMAIN s |-> s[i]] /\ t = [i \in DOMAIN t |-> t[i]]
  OBVIOUS
<1>5. [i \in DOMAIN s |-> s[i]] = [i \in DOMAIN t |-> t[i]]
  BY <1>1, <1>3
<1> QED BY <1>4, <1>5, Zenon

(* A list that fills up below another stays below it if its budget is the  *)
(* smaller: until it is full they are the same.                            *)
LEMMA AddKeepsBelow ==
  ASSUME NEW s \in Filling, NEW t \in Filling, NEW x \in Nat \ {0},
         NEW b \in Int, NEW d \in Int, b <= d,
         Below(s.taken, t.taken), ~s.full => ~t.full /\ s.taken = t.taken
  PROVE  /\ Below(AddTo(s, x, b).taken, AddTo(t, x, d).taken)
         /\ ~AddTo(s, x, b).full =>
               ~AddTo(t, x, d).full /\ AddTo(s, x, b).taken = AddTo(t, x, d).taken
<1> DEFINE u == s.taken
           v == t.taken
<1>1. u \in Seq(Nat) /\ v \in Seq(Nat) /\ x \in Nat
  BY DEF Filling
<1>2. Room(s, b) \in Int /\ Room(t, d) \in Int
  BY AddCases
<1>3. CASE s.full
  <2>1. AddTo(s, x, b) = s
    BY <1>3, AddCases
  <2>2. \/ AddTo(t, x, d).taken = v
        \/ AddTo(t, x, d).taken = Append(v, x)
        \/ Room(t, d) \in Nat /\ AddTo(t, x, d).taken = Append(v, Room(t, d))
    BY AddCases
  <2>3. Below(u, Append(v, x)) /\ (Room(t, d) \in Nat => Below(u, Append(v, Room(t, d))))
    BY <1>1, BelowAppend
  <2>4. Below(u, AddTo(t, x, d).taken)
    BY <2>2, <2>3
  <2> QED BY <1>3, <2>1, <2>4
<1>4. CASE ~s.full
  <2>1. ~t.full /\ u = v
    BY <1>4
  <2>2. Room(s, b) <= Room(t, d)
    <3>1. Append(u, 0) \in Seq(Nat)
      BY <1>1
    <3>2. Length(Append(u, 0)) \in Nat
      BY <3>1, LengthIsNat
    <3>3. \A k \in Nat : b - k <= d - k
      OBVIOUS
    <3>4. b - Length(Append(u, 0)) <= d - Length(Append(u, 0))
      BY <3>2, <3>3
    <3> QED BY <2>1, <3>4 DEF Room
  <2>3. CASE x <= Room(s, b)
    <3>1. x <= Room(t, d) /\ ~(Room(s, b) < x) /\ ~(Room(t, d) < x)
            /\ ~(Room(s, b) < 1) /\ ~(Room(t, d) < 1)
      BY <1>1, <1>2, <2>2, <2>3
    <3>2. AddTo(s, x, b).taken = Append(u, x) /\ ~AddTo(s, x, b).full
      BY <1>4, <3>1, AddCases
    <3>3. AddTo(t, x, d).taken = Append(v, x) /\ ~AddTo(t, x, d).full
      BY <2>1, <3>1, AddCases
    <3>4. Below(Append(u, x), Append(u, x))
      BY <1>1, BelowAppend
    <3> QED BY <2>1, <3>2, <3>3, <3>4
  <2>4. CASE Room(s, b) < x /\ Room(s, b) \in Nat \ {0}
    <3>1. ~(x <= Room(s, b)) /\ ~(Room(s, b) < 1) /\ ~(Room(t, d) < 1)
      BY <1>1, <1>2, <2>2, <2>4
    <3>2. AddTo(s, x, b).taken = Append(u, Room(s, b)) /\ AddTo(s, x, b).full
      BY <1>4, <2>4, <3>1, AddCases
    <3>3. \/ AddTo(t, x, d).taken = Append(v, x)
          \/ Room(t, d) \in Nat /\ AddTo(t, x, d).taken = Append(v, Room(t, d))
      BY <2>1, <3>1, AddCases
    <3>4. /\ Room(s, b) \in Nat /\ Room(s, b) <= x
          /\ Room(t, d) \in Nat => Room(s, b) <= Room(t, d)
      BY <1>1, <2>2, <2>4
    <3>5. /\ Below(Append(u, Room(s, b)), Append(u, x))
          /\ Room(t, d) \in Nat => Below(Append(u, Room(s, b)), Append(u, Room(t, d)))
      BY <1>1, <3>4, BelowAppend
    <3> HIDE DEF u, v
    <3> QED BY <2>1, <3>2, <3>3, <3>5
  <2>5. CASE Room(s, b) < 1
    <3>1. ~(x <= Room(s, b)) /\ ~(Room(s, b) \in Nat \ {0})
      BY <1>1, <1>2, <2>5
    <3>2. AddTo(s, x, b).taken = u /\ AddTo(s, x, b).full
      BY <1>4, <2>5, <3>1, AddCases
    <3>3. \/ AddTo(t, x, d).taken = v
          \/ AddTo(t, x, d).taken = Append(v, x)
          \/ Room(t, d) \in Nat /\ AddTo(t, x, d).taken = Append(v, Room(t, d))
      BY <2>1, AddCases
    <3>4. /\ Below(u, u) /\ Below(u, Append(u, x))
          /\ Room(t, d) \in Nat => Below(u, Append(u, Room(t, d)))
      BY <1>1, BelowAppend
    <3> HIDE DEF u, v
    <3> QED BY <2>1, <3>2, <3>3, <3>4
  <2> QED BY <1>4, <2>3, <2>4, <2>5, AddCases
<1> QED BY <1>3, <1>4

(* A smaller budget leaves a context below that of a greater one.          *)
LEMMA ContextGrows ==
  ASSUME NEW c \in Seq(Nat \ {0}), NEW b \in Int, NEW d \in Int, b <= d
  PROVE  Below(BuildContext(c, b), BuildContext(c, d))
<1>1. PICK g : Fills(g, c, b) /\ BuildContext(c, b) = g[Len(c)].taken
  BY ContextIs
<1>2. PICK h : Fills(h, c, d) /\ BuildContext(c, d) = h[Len(c)].taken
  BY ContextIs
<1> DEFINE n == Len(c)
           Under(s, t) == /\ Below(s.taken, t.taken)
                          /\ ~s.full => ~t.full /\ s.taken = t.taken
<1>3. n \in Nat /\ \A i \in 1 .. n : c[i] \in Nat \ {0}
  OBVIOUS
<1>4. \A k \in 0 .. n : g[k] \in Filling /\ h[k] \in Filling
  BY <1>1, <1>2 DEF Fills
<1>5. ASSUME NEW s \in Filling, NEW t \in Filling, NEW x \in Nat \ {0}, Under(s, t)
      PROVE  Under(AddTo(s, x, b), AddTo(t, x, d))
  BY <1>5, AddKeepsBelow
<1>6. Under(g[0], h[0])
  BY <1>1, <1>2 DEF Fills, NothingTaken, Below
<1> HIDE DEF n, Under
<1> DEFINE T == {k \in Nat : k <= n => Under(g[k], h[k])}
<1>7. 0 \in T
  BY <1>6
<1>8. ASSUME NEW k \in Nat, k \in T PROVE k + 1 \in T
  <2> SUFFICES ASSUME k + 1 <= n PROVE Under(g[k + 1], h[k + 1])
    OBVIOUS
  <2>1. k + 1 \in 1 .. n /\ (k + 1) - 1 = k /\ k \in 0 .. n /\ Under(g[k], h[k])
    BY <1>3, <1>8
  <2>2. g[k + 1] = AddTo(g[k], c[k + 1], b) /\ h[k + 1] = AddTo(h[k], c[k + 1], d)
    BY <1>1, <1>2, <2>1 DEF Fills, n
  <2>3. g[k] \in Filling /\ h[k] \in Filling /\ c[k + 1] \in Nat \ {0}
    BY <1>3, <1>4, <2>1
  <2> QED BY <1>5, <2>1, <2>2, <2>3
<1>9. n \in T
  <2> HIDE DEF T
  <2> QED BY <1>3, <1>7, <1>8, SetInduction
<1>10. Under(g[n], h[n])
  BY <1>3, <1>9
<1> QED BY <1>1, <1>2, <1>10 DEF Under, n

(* A context is below the sources it is built from.                        *)
LEMMA ContextIsBelow ==
  ASSUME NEW c \in Seq(Nat \ {0}), NEW b \in Int
  PROVE  Below(BuildContext(c, b), c)
<1>1. PICK h : Fills(h, c, b) /\ BuildContext(c, b) = h[Len(c)].taken
  BY ContextIs
<1> DEFINE n == Len(c)
           Of(s, k) == /\ Len(s.taken) <= k
                       /\ ~s.full => Len(s.taken) = k
                       /\ \A i \in 1 .. Len(s.taken) : s.taken[i] <= c[i]
<1>2. n \in Nat /\ DOMAIN c = 1 .. n /\ \A i \in 1 .. n : c[i] \in Nat \ {0}
  OBVIOUS
<1>3. \A k \in 0 .. n : h[k] \in Filling
  BY <1>1 DEF Fills
<1>4. ASSUME NEW s \in Filling, NEW k \in Nat, k + 1 \in 1 .. n, Of(s, k)
      PROVE  Of(AddTo(s, c[k + 1], b), k + 1)
  <2> DEFINE x == c[k + 1]
             u == s.taken
  <2>1. u \in Seq(Nat) /\ x \in Nat \ {0} /\ x \in Nat
    BY <1>2, <1>4 DEF Filling
  <2>2. CASE AddTo(s, x, b) = s /\ s.full
    BY <1>4, <2>1, <2>2
  <2>3. ASSUME NEW y \in Nat, y <= x, ~s.full, AddTo(s, x, b).taken = Append(u, y)
        PROVE  Of(AddTo(s, x, b), k + 1)
    <3>1. Len(u) = k /\ \A i \in 1 .. k : u[i] <= c[i]
      BY <1>4, <2>3
    <3>2. /\ Len(Append(u, y)) = k + 1 /\ Append(u, y)[k + 1] = y
          /\ \A i \in 1 .. k : Append(u, y)[i] = u[i]
      BY <2>1, <3>1
    <3>3. \A i \in 1 .. k + 1 : Append(u, y)[i] <= c[i]
      <4>1. \A i \in 1 .. k + 1 : i \in 1 .. k \/ i = k + 1
        OBVIOUS
      <4> QED BY <2>3, <3>1, <3>2, <4>1
    <3> QED BY <2>3, <3>2, <3>3
  <2>4. CASE ~s.full /\ AddTo(s, x, b).taken = u /\ AddTo(s, x, b).full
    BY <1>4, <2>1, <2>4
  <2>5. Room(s, b) < x => Room(s, b) <= x
    <3>1. Room(s, b) \in Int
      BY <2>1, AddCases
    <3>2. \A j \in Int : j < x => j <= x
      BY <2>1
    <3> QED BY <3>1, <3>2, Zenon
  <2> HIDE DEF x, u
  <2>6. x <= x
    BY <2>1
  <2>7. \/ AddTo(s, x, b) = s /\ s.full
        \/ ~s.full /\ AddTo(s, x, b).taken = Append(u, x)
        \/ ~s.full /\ Room(s, b) \in Nat /\ Room(s, b) <= x
             /\ AddTo(s, x, b).taken = Append(u, Room(s, b))
        \/ ~s.full /\ AddTo(s, x, b).taken = u /\ AddTo(s, x, b).full
    BY <2>1, <2>5, AddCases DEF u
  <2> QED BY <2>1, <2>2, <2>3, <2>4, <2>6, <2>7 DEF x
<1>5. Of(h[0], 0)
  BY <1>1 DEF Fills, NothingTaken
<1> HIDE DEF n, Of
<1> DEFINE T == {k \in Nat : k <= n => Of(h[k], k)}
<1>6. 0 \in T
  BY <1>5
<1>7. ASSUME NEW k \in Nat, k \in T PROVE k + 1 \in T
  <2> SUFFICES ASSUME k + 1 <= n PROVE Of(h[k + 1], k + 1)
    OBVIOUS
  <2>1. k + 1 \in 1 .. n /\ (k + 1) - 1 = k /\ k \in 0 .. n /\ Of(h[k], k)
    BY <1>2, <1>7
  <2>2. h[k + 1] = AddTo(h[k], c[k + 1], b)
    BY <1>1, <2>1 DEF Fills, n
  <2>3. h[k] \in Filling
    BY <1>3, <2>1
  <2> QED BY <1>4, <2>1, <2>2, <2>3
<1>8. n \in T
  <2> HIDE DEF T
  <2> QED BY <1>2, <1>6, <1>7, SetInduction
<1>9. Of(h[n], n) /\ h[n] \in Filling
  BY <1>2, <1>3, <1>8
<1>10. h[n].taken \in Seq(Nat)
  BY <1>9 DEF Filling
<1>11. DOMAIN h[n].taken = 1 .. Len(h[n].taken) /\ Len(h[n].taken) \in Nat
  BY <1>10
<1>12. Below(h[n].taken, c)
  BY <1>2, <1>9, <1>11 DEF Below, Of
<1> QED BY <1>1, <1>12 DEF n

(* If all sources fit a budget, they fit a greater one.                    *)
LEMMA AllFitMore ==
  ASSUME NEW c \in Seq(Nat \ {0}), NEW b \in Int, NEW d \in Int, b <= d,
         BuildContext(c, b) = c
  PROVE  BuildContext(c, d) = c
<1>1. Below(c, BuildContext(c, d)) /\ Below(BuildContext(c, d), c)
  BY ContextGrows, ContextIsBelow
<1>2. BuildContext(c, d) \in Seq(Nat) /\ c \in Seq(Nat)
  <2>1. BuildContext(c, d) \in Seq(Nat \ {0})
    BY ContextIsWithin
  <2>2. \A s \in Seq(Nat \ {0}) : s \in Seq(Nat)
    OBVIOUS
  <2> QED BY <2>1, <2>2
<1> QED BY <1>1, <1>2, BelowBoth

(* The context of one side: own share and, if the other side leaves some,  *)
(* what it leaves of its own.                                              *)
AtLeastOne(k) == IF k < 1 THEN 1 ELSE k
Alone(c, s) == BuildContext(c, AtLeastOne(s))
Left(e, r) == r - Length(Alone(e, r))
Side(c, e, s, r) ==
  IF Alone(e, r) = e /\ Alone(c, s) # c /\ Left(e, r) > 0
  THEN BuildContext(c, AtLeastOne(s + Left(e, r)))
  ELSE Alone(c, s)
Share(b) == (b * (IF case.mode = "knowledge_first" THEN 67 ELSE 50)) \div 100

(* With a share of at least one, what has a source fits the share itself.  *)
LEMMA AloneIsWithin ==
  ASSUME NEW c \in Seq(Nat \ {0}), NEW k \in Int
  PROVE  /\ AtLeastOne(k) \in Int /\ BuildContext(c, AtLeastOne(k)) \in Seq(Nat \ {0})
         /\ Length(BuildContext(c, AtLeastOne(k))) \in Nat
         /\ Length(BuildContext(c, AtLeastOne(k))) >= 2
         /\ BuildContext(c, AtLeastOne(k)) # <<>> =>
              Length(BuildContext(c, AtLeastOne(k))) <= k
<1> DEFINE x == BuildContext(c, AtLeastOne(k))
           l == Length(x)
<1>1. AtLeastOne(k) \in Int
  BY DEF AtLeastOne
<1>2. x \in Seq(Nat \ {0}) /\ (x # <<>> => l <= AtLeastOne(k))
  BY <1>1, ContextIsWithin
<1>3. x \in Seq(Nat)
  <2>1. \A s \in Seq(Nat \ {0}) : s \in Seq(Nat)
    OBVIOUS
  <2> HIDE DEF x
  <2> QED BY <1>2, <2>1
<1> HIDE DEF x
<1>4. l \in Nat /\ l >= 2
  BY <1>3, LengthIsNat
<1> HIDE DEF l
<1>5. x # <<>> => l <= k
  BY <1>2, <1>4 DEF AtLeastOne
<1> QED BY <1>1, <1>2, <1>4, <1>5 DEF l, x

(* A side with a source is within both shares.                             *)
LEMMA SideIsWithin ==
  ASSUME NEW c \in Seq(Nat \ {0}), NEW e \in Seq(Nat \ {0}), NEW s \in Nat, NEW r \in Nat
  PROVE  /\ Side(c, e, s, r) \in Seq(Nat \ {0})
         /\ Length(Side(c, e, s, r)) \in Nat
         /\ Side(c, e, s, r) # <<>> => Length(Side(c, e, s, r)) <= s + r
<1>1. Left(e, r) \in Int /\ Left(e, r) <= r
  <2>1. Length(Alone(e, r)) \in Nat
    <3>1. r \in Int
      OBVIOUS
    <3> QED BY <3>1, AloneIsWithin DEF Alone
  <2>2. \A j \in Nat : r - j \in Int /\ r - j <= r
    OBVIOUS
  <2> QED BY <2>1, <2>2, Zenon DEF Left
<1>2. s + Left(e, r) \in Int /\ s + Left(e, r) <= s + r
  BY <1>1
<1>3. CASE Side(c, e, s, r) = BuildContext(c, AtLeastOne(s + Left(e, r)))
  <2> DEFINE l == Length(Side(c, e, s, r))
             m == s + Left(e, r)
  <2>1. /\ Side(c, e, s, r) \in Seq(Nat \ {0})
        /\ l \in Nat /\ (Side(c, e, s, r) # <<>> => l <= m)
    BY <1>2, <1>3, AloneIsWithin
  <2> HIDE DEF l, m
  <2>2. m \in Int /\ m <= s + r
    BY <1>2 DEF m
  <2> QED BY <2>1, <2>2 DEF l
<1>4. CASE Side(c, e, s, r) = Alone(c, s)
  <2> DEFINE l == Length(Side(c, e, s, r))
  <2>1. /\ Side(c, e, s, r) \in Seq(Nat \ {0})
        /\ l \in Nat /\ (Side(c, e, s, r) # <<>> => l <= s)
    BY <1>4, AloneIsWithin DEF Alone
  <2> HIDE DEF l
  <2> QED BY <2>1 DEF l
<1> QED BY <1>3, <1>4 DEF Side

(* Two sides with sources are within both shares together.                 *)
LEMMA SidesAreWithin ==
  ASSUME NEW c \in Seq(Nat \ {0}), NEW e \in Seq(Nat \ {0}), NEW s \in Nat, NEW r \in Nat,
         Side(c, e, s, r) # <<>>, Side(e, c, r, s) # <<>>
  PROVE  Length(Side(c, e, s, r)) + Length(Side(e, c, r, s)) <= s + r
<1> DEFINE x == Alone(c, s)
           y == Alone(e, r)
           p == Length(x)
           q == Length(y)
<1>1. p \in Nat /\ q \in Nat /\ (x # <<>> => p <= s) /\ (y # <<>> => q <= r)
  BY AloneIsWithin DEF Alone
<1>2. CASE Alone(e, r) = e /\ Alone(c, s) # c /\ Left(e, r) > 0
  <2>1. Side(e, c, r, s) = y /\ Side(c, e, s, r) = BuildContext(c, AtLeastOne(s + Left(e, r)))
    BY <1>2 DEF Side
  <2> DEFINE l == Length(Side(c, e, s, r))
             m == s + Left(e, r)
  <2> HIDE DEF p, q
  <2>2. m = s + (r - q) /\ m \in Int
    BY <1>1 DEF Left, q
  <2> HIDE DEF m
  <2>3. Side(c, e, s, r) = BuildContext(c, AtLeastOne(m))
    BY <2>1 DEF m
  <2>4. l \in Nat /\ l <= m
    BY <2>2, <2>3, AloneIsWithin
  <2> HIDE DEF l
  <2>5. l + q <= s + r
    BY <1>1, <2>2, <2>4
  <2> QED BY <2>1, <2>5 DEF l, q
<1>3. CASE Alone(c, s) = c /\ Alone(e, r) # e /\ Left(c, s) > 0
  <2>1. Side(c, e, s, r) = x /\ Side(e, c, r, s) = BuildContext(e, AtLeastOne(r + Left(c, s)))
    BY <1>3 DEF Side
  <2> DEFINE l == Length(Side(e, c, r, s))
             m == r + Left(c, s)
  <2> HIDE DEF p, q
  <2>2. m = r + (s - p) /\ m \in Int
    BY <1>1 DEF Left, p
  <2> HIDE DEF m
  <2>3. Side(e, c, r, s) = BuildContext(e, AtLeastOne(m))
    BY <2>1 DEF m
  <2>4. l \in Nat /\ l <= m
    BY <2>2, <2>3, AloneIsWithin
  <2> HIDE DEF l
  <2>5. p + l <= s + r
    BY <1>1, <2>2, <2>4
  <2> QED BY <2>1, <2>5 DEF l, p
<1>4. CASE Side(c, e, s, r) = x /\ Side(e, c, r, s) = y
  <2>1. p <= s /\ q <= r
    BY <1>1, <1>4
  <2> HIDE DEF p, q
  <2>2. p + q <= s + r
    BY <1>1, <2>1
  <2> QED BY <1>4, <2>2 DEF p, q
<1> QED BY <1>2, <1>3, <1>4 DEF Side

(* With a smaller share of each, a side comes below what it had.           *)
LEMMA SideGrows ==
  ASSUME NEW c \in Seq(Nat \ {0}), NEW e \in Seq(Nat \ {0}),
         NEW s \in Nat, NEW r \in Nat, NEW u \in Nat, NEW v \in Nat, s <= u, r <= v
  PROVE  Below(Side(c, e, s, r), Side(c, e, u, v))
<1>1. /\ AtLeastOne(s) \in Int /\ AtLeastOne(u) \in Int /\ AtLeastOne(s) <= AtLeastOne(u)
      /\ AtLeastOne(r) \in Int /\ AtLeastOne(v) \in Int /\ AtLeastOne(r) <= AtLeastOne(v)
  BY DEF AtLeastOne
<1>2. Left(e, r) \in Int /\ Left(e, v) \in Int
  <2>1. Length(Alone(e, r)) \in Nat /\ Length(Alone(e, v)) \in Nat
    <3>1. r \in Int /\ v \in Int
      OBVIOUS
    <3> QED BY <3>1, AloneIsWithin DEF Alone
  <2>2. \A j \in Nat : r - j \in Int /\ v - j \in Int
    OBVIOUS
  <2> QED BY <2>1, <2>2, Zenon DEF Left
<1>3. \A m \in Int : /\ s <= m => AtLeastOne(m) \in Int /\ AtLeastOne(s) <= AtLeastOne(m)
                     /\ s + Left(e, r) <= m =>
                          /\ AtLeastOne(s + Left(e, r)) \in Int
                          /\ AtLeastOne(s + Left(e, r)) <= AtLeastOne(m)
  BY <1>2 DEF AtLeastOne
<1>4. Side(c, e, u, v) \in {BuildContext(c, AtLeastOne(u + Left(e, v))), Alone(c, u)}
  BY DEF Side
<1>5. CASE Side(c, e, s, r) = Alone(c, s)
  <2>1. Below(Alone(c, s), Alone(c, u))
    BY <1>1, ContextGrows DEF Alone
  <2>2. CASE Left(e, v) > 0
    <3>1. u + Left(e, v) \in Int /\ s <= u + Left(e, v)
      BY <1>2, <2>2
    <3>2. Below(Alone(c, s), BuildContext(c, AtLeastOne(u + Left(e, v))))
      BY <1>1, <1>3, <3>1, ContextGrows DEF Alone
    <3> QED BY <1>4, <1>5, <2>1, <3>2
  <2>3. CASE ~(Left(e, v) > 0)
    BY <1>5, <2>1, <2>3 DEF Side
  <2> QED BY <2>2, <2>3
<1>6. CASE Alone(e, r) = e /\ Alone(c, s) # c /\ Left(e, r) > 0
  <2>1. Side(c, e, s, r) = BuildContext(c, AtLeastOne(s + Left(e, r)))
    BY <1>6 DEF Side
  <2>2. s + Left(e, r) \in Int /\ AtLeastOne(s + Left(e, r)) \in Int
    BY <1>2, <1>3
  <2>3. Alone(e, v) = e
    BY <1>1, <1>6, AllFitMore DEF Alone
  <2>4. CASE Alone(c, u) = c
    <3>1. Side(c, e, u, v) = c
      BY <2>4 DEF Side
    <3> QED BY <2>1, <2>2, <3>1, ContextIsBelow
  <2>5. CASE Alone(c, u) # c
    <3>1. Left(e, r) <= Left(e, v)
      <4>1. Length(e) \in Nat
        BY <1>6, AloneIsWithin DEF Alone
      <4>2. \A j \in Nat : r - j <= v - j
        OBVIOUS
      <4>3. Left(e, r) = r - Length(e) /\ Left(e, v) = v - Length(e)
        BY <1>6, <2>3 DEF Left
      <4> QED BY <4>1, <4>2, <4>3
    <3>2. Left(e, v) > 0 /\ s + Left(e, r) <= u + Left(e, v) /\ u + Left(e, v) \in Int
      BY <1>2, <1>6, <3>1
    <3>3. Side(c, e, u, v) = BuildContext(c, AtLeastOne(u + Left(e, v)))
      BY <2>3, <2>5, <3>2 DEF Side
    <3>4. AtLeastOne(u + Left(e, v)) \in Int
      BY <3>2 DEF AtLeastOne
    <3>5. AtLeastOne(s + Left(e, r)) <= AtLeastOne(u + Left(e, v))
      BY <1>3, <3>2
    <3> QED BY <2>1, <2>2, <3>3, <3>4, <3>5, ContextGrows
  <2> QED BY <2>4, <2>5
<1> QED BY <1>5, <1>6 DEF Side

(* The share of the local side is a part of the budget, and neither it nor *)
(* what remains for the web grows when the budget does not.                *)
LEMMA Shares ==
  ASSUME NEW b \in Nat, NEW d \in Nat, b <= d
  PROVE  /\ Share(b) \in Nat /\ b - Share(b) \in Nat
         /\ Share(b) <= Share(d) /\ b - Share(b) <= d - Share(d)
<1>1. CASE case.mode = "knowledge_first"
  BY <1>1 DEF Share
<1>2. CASE case.mode # "knowledge_first"
  BY <1>2 DEF Share
<1> QED BY <1>1, <1>2

(* The context of the model has the two sides, or one with all the budget. *)
LEMMA ModeContextIs ==
  ASSUME NEW b
  PROVE  ContextForMode(b) =
           IF case.local = <<>> \/ case.web = <<>>
           THEN [local |-> BuildContext(case.local, b), web |-> BuildContext(case.web, b)]
           ELSE [local |-> Side(case.local, case.web, Share(b), b - Share(b)),
                 web |-> Side(case.web, case.local, b - Share(b), Share(b))]
BY DEF ContextForMode, Side, Alone, Left, AtLeastOne, Share

(* The parts of a case.                                                    *)
LEMMA CaseIs ==
  ASSUME case \in Cases
  PROVE  /\ case.kind \in {"ask", "stream"} /\ case.budget \in Nat
         /\ case.local \in Seq(Nat \ {0}) /\ case.web \in Seq(Nat \ {0})
BY Settings

Contents == [local : Seq(Nat \ {0}), web : Seq(Nat \ {0})]

(* Two sides within a budget, together with the comma between them.        *)
LEMMA BothAreWithin ==
  ASSUME NEW x \in Seq(Nat \ {0}), NEW y \in Seq(Nat \ {0}), NEW b \in Nat,
         x # <<>> => Length(x) <= b, y # <<>> => Length(y) <= b,
         x # <<>> /\ y # <<>> => Length(x) + Length(y) <= b
  PROVE  x \o y # <<>> => Length(x \o y) <= b
<1>1. x \in Seq(Nat) /\ y \in Seq(Nat)
  OBVIOUS
<1>2. Length(x \o y) = IF x = <<>> THEN Length(y) ELSE IF y = <<>> THEN Length(x)
                       ELSE Length(x) + Length(y) - 1
  BY <1>1, LengthOfBoth
<1>3. x = <<>> /\ y = <<>> => x \o y = <<>>
  OBVIOUS
<1>4. Length(x) \in Nat /\ Length(y) \in Nat
  BY <1>1, LengthIsNat
<1>5. \A k, l \in Nat : k + l <= b => k + l - 1 <= b
  OBVIOUS
<1>6. CASE x # <<>> /\ y # <<>>
  <2>1. Length(x) + Length(y) - 1 <= b
    <3>1. Length(x) + Length(y) <= b
      BY <1>6
    <3> QED BY <1>4, <1>5, <3>1, Zenon
  <2> QED BY <1>2, <1>6, <2>1, Zenon
<1>7. CASE x = <<>> \/ y = <<>>
  BY <1>2, <1>3, <1>7, Zenon
<1> QED BY <1>6, <1>7

(* A list below the empty one is empty.                                    *)
LEMMA BelowEmpty ==
  ASSUME NEW s \in Seq(Nat \ {0}), Below(s, <<>>)
  PROVE  s = <<>>
<1>1. s # <<>> => 1 \in DOMAIN s
  OBVIOUS
<1>2. 1 \notin DOMAIN <<>>
  OBVIOUS
<1> QED BY <1>1, <1>2 DEF Below

(* A context of any sources within a budget.                               *)
LEMMA ModeContextIsWithin ==
  ASSUME case \in Cases, NEW b \in Nat
  PROVE  /\ ContextForMode(b) \in Contents
         /\ Combined(ContextForMode(b)) # <<>> => Length(Combined(ContextForMode(b))) <= b
<1> DEFINE x == ContextForMode(b).local
           y == ContextForMode(b).web
<1>1. case.local \in Seq(Nat \ {0}) /\ case.web \in Seq(Nat \ {0}) /\ b \in Int
  BY CaseIs
<1> SUFFICES /\ ContextForMode(b) = [local |-> x, web |-> y]
             /\ x \in Seq(Nat \ {0}) /\ y \in Seq(Nat \ {0})
             /\ x # <<>> => Length(x) <= b
             /\ y # <<>> => Length(y) <= b
             /\ x # <<>> /\ y # <<>> => Length(x) + Length(y) <= b
  <2> HIDE DEF x, y
  <2>1. ContextForMode(b) \in Contents
    BY DEF Contents
  <2>2. Combined(ContextForMode(b)) = x \o y
    BY DEF Combined
  <2>3. x \o y # <<>> => Length(x \o y) <= b
    BY BothAreWithin
  <2> QED BY <2>1, <2>2, <2>3
<1>2. CASE case.local = <<>> \/ case.web = <<>>
  <2>1. /\ ContextForMode(b) = [local |-> x, web |-> y]
        /\ x = BuildContext(case.local, b) /\ y = BuildContext(case.web, b)
    BY <1>2, ModeContextIs
  <2> HIDE DEF x, y
  <2>2. /\ x \in Seq(Nat \ {0}) /\ y \in Seq(Nat \ {0})
        /\ x # <<>> => Length(x) <= b
        /\ y # <<>> => Length(y) <= b
    BY <1>1, <2>1, ContextIsWithin
  <2>3. x = <<>> \/ y = <<>>
    <3>1. Below(x, case.local) /\ Below(y, case.web)
      BY <1>1, <2>1, ContextIsBelow
    <3> QED BY <1>2, <2>2, <3>1, BelowEmpty
  <2> QED BY <2>1, <2>2, <2>3
<1>3. CASE case.local # <<>> /\ case.web # <<>>
  <2> DEFINE s == Share(b)
             r == b - Share(b)
  <2>1. s \in Nat /\ r \in Nat /\ s + r = b /\ r + s = b
    <3>1. b <= b
      OBVIOUS
    <3>2. s \in Nat /\ r \in Nat
      BY <3>1, Shares
    <3> QED BY <3>2
  <2> HIDE DEF s, r
  <2>2. /\ ContextForMode(b) = [local |-> x, web |-> y]
        /\ x = Side(case.local, case.web, s, r) /\ y = Side(case.web, case.local, r, s)
    BY <1>3, ModeContextIs DEF s, r
  <2> HIDE DEF x, y
  <2>3. x \in Seq(Nat \ {0}) /\ (x # <<>> => Length(x) <= b)
    <3>1. x \in Seq(Nat \ {0}) /\ (x # <<>> => Length(x) <= s + r)
      BY <1>1, <2>1, <2>2, SideIsWithin
    <3> QED BY <2>1, <3>1
  <2>4. y \in Seq(Nat \ {0}) /\ (y # <<>> => Length(y) <= b)
    <3>1. y \in Seq(Nat \ {0}) /\ (y # <<>> => Length(y) <= r + s)
      BY <1>1, <2>1, <2>2, SideIsWithin
    <3> QED BY <2>1, <3>1
  <2>5. x # <<>> /\ y # <<>> => Length(x) + Length(y) <= b
    BY <1>1, <2>1, <2>2, SidesAreWithin
  <2> QED BY <2>2, <2>3, <2>4, <2>5
<1> QED BY <1>2, <1>3

(* A context of a smaller budget has no source the other has not, and none *)
(* longer.                                                                 *)
LEMMA ModeContextGrows ==
  ASSUME case \in Cases, NEW b \in Nat, NEW d \in Nat, b <= d
  PROVE  /\ Below(ContextForMode(b).local, ContextForMode(d).local)
         /\ Below(ContextForMode(b).web, ContextForMode(d).web)
<1>1. /\ case.local \in Seq(Nat \ {0}) /\ case.web \in Seq(Nat \ {0})
      /\ b \in Int /\ d \in Int
  BY CaseIs
<1>2. CASE case.local = <<>> \/ case.web = <<>>
  <2>1. /\ ContextForMode(b).local = BuildContext(case.local, b)
        /\ ContextForMode(b).web = BuildContext(case.web, b)
        /\ ContextForMode(d).local = BuildContext(case.local, d)
        /\ ContextForMode(d).web = BuildContext(case.web, d)
    BY <1>2, ModeContextIs
  <2> QED BY <1>1, <2>1, ContextGrows
<1>3. CASE case.local # <<>> /\ case.web # <<>>
  <2>1. /\ ContextForMode(b).local = Side(case.local, case.web, Share(b), b - Share(b))
        /\ ContextForMode(b).web = Side(case.web, case.local, b - Share(b), Share(b))
        /\ ContextForMode(d).local = Side(case.local, case.web, Share(d), d - Share(d))
        /\ ContextForMode(d).web = Side(case.web, case.local, d - Share(d), Share(d))
    BY <1>3, ModeContextIs
  <2>2. /\ Share(b) \in Nat /\ b - Share(b) \in Nat
        /\ Share(b) <= Share(d) /\ b - Share(b) <= d - Share(d)
    BY Shares
  <2>3. d <= d
    OBVIOUS
  <2>4. Share(d) \in Nat /\ d - Share(d) \in Nat
    BY <2>3, Shares
  <2>5. Below(Side(case.local, case.web, Share(b), b - Share(b)),
              Side(case.local, case.web, Share(d), d - Share(d)))
    BY <1>1, <2>2, <2>4, SideGrows
  <2>6. Below(Side(case.web, case.local, b - Share(b), Share(b)),
              Side(case.web, case.local, d - Share(d), Share(d)))
    BY <1>1, <2>2, <2>4, SideGrows
  <2> QED BY <2>1, <2>5, <2>6
<1> QED BY <1>2, <1>3

-----------------------------------------------------------------------------
(* References.  Opens says that a bracket at i may be the one which the one*)
(* at e closes.                                                            *)
Opens(s, i, e) == /\ s[i] = "[" /\ i + 1 < e /\ s[i + 1] \in {"K", "W"}
                  /\ \A k \in i .. e - 1 : s[k] # "]"
Refers(s, i, e) == /\ i \in 1 .. Len(s) /\ e \in 1 .. Len(s) /\ s[e] = "]" /\ Opens(s, i, e)
                   /\ \A j \in 1 .. i - 1 : ~Opens(s, j, e)
NameAt(s, i, e) == IF e = i + 3 /\ s[i + 2] \in DOMAIN Digit
                   THEN <<s[i + 1], Digit[s[i + 2]]>> ELSE <<"malformed">>

(* The references of the model, by their two brackets.                     *)
LEMMA ReferencesAre ==
  ASSUME NEW s \in Seq(Symbols)
  PROVE  /\ \A r \in References(s) : Refers(s, r[1], r[2]) /\ Names(s, r) = NameAt(s, r[1], r[2])
         /\ \A i, e \in 1 .. Len(s) : Refers(s, i, e) =>
                 <<i, e>> \in References(s) /\ Names(s, <<i, e>>) = NameAt(s, i, e)
<1>1. DOMAIN s = 1 .. Len(s)
  OBVIOUS
<1>2. ASSUME NEW r \in References(s)
      PROVE  Refers(s, r[1], r[2]) /\ Names(s, r) = NameAt(s, r[1], r[2])
  <2>1. /\ r \in (DOMAIN s) \X Positions(s, "]") /\ Opens(s, r[1], r[2])
        /\ \A j \in 1 .. r[1] - 1 : ~Opens(s, j, r[2])
    BY DEF References, Opens
  <2>2. r[1] \in DOMAIN s /\ r[2] \in DOMAIN s /\ s[r[2]] = "]"
    BY <2>1 DEF Positions
  <2> QED BY <1>1, <2>1, <2>2 DEF Refers, Names, NameAt
<1>3. ASSUME NEW i \in 1 .. Len(s), NEW e \in 1 .. Len(s), Refers(s, i, e)
      PROVE  <<i, e>> \in References(s) /\ Names(s, <<i, e>>) = NameAt(s, i, e)
  <2>1. <<i, e>> \in (DOMAIN s) \X Positions(s, "]")
    BY <1>1, <1>3 DEF Refers, Positions
  <2>2. <<i, e>>[1] = i /\ <<i, e>>[2] = e
    OBVIOUS
  <2>3. Opens(s, i, e) /\ \A j \in 1 .. i - 1 : ~Opens(s, j, e)
    BY <1>3 DEF Refers
  <2>4. <<i, e>> \in References(s)
    BY <2>1, <2>2, <2>3 DEF References, Opens
  <2> QED BY <2>2, <2>4 DEF Names, NameAt
<1> QED BY <1>2, <1>3

(* What is cited is named by a pair of brackets.                           *)
LEMMA CitedIs ==
  ASSUME NEW s \in Seq(Symbols), NEW i, NEW e, Refers(s, i, e)
  PROVE  NameAt(s, i, e) \in Cited(s)
<1>1. i \in 1 .. Len(s) /\ e \in 1 .. Len(s)
  BY DEF Refers
<1> QED BY <1>1, ReferencesAre DEF Cited

(* A reference lies in the first of two texts, in the second, or between.  *)
LEMMA RefersInFirst ==
  ASSUME NEW s \in Seq(Symbols), NEW t \in Seq(Symbols), NEW i \in Nat, NEW e \in Nat,
         e <= Len(s)
  PROVE  /\ Refers(s, i, e) <=> Refers(s \o t, i, e)
         /\ Refers(s, i, e) => NameAt(s, i, e) = NameAt(s \o t, i, e)
<1> DEFINE w == s \o t
<1>1. /\ w \in Seq(Symbols) /\ Len(w) = Len(s) + Len(t) /\ Len(s) \in Nat /\ Len(t) \in Nat
      /\ \A k \in 1 .. Len(s) : w[k] = s[k]
  OBVIOUS
<1> HIDE DEF w
<1>2. \A j \in 1 .. Len(s) : Opens(w, j, e) <=> Opens(s, j, e)
  <2> SUFFICES ASSUME NEW j \in 1 .. Len(s) PROVE Opens(w, j, e) <=> Opens(s, j, e)
    OBVIOUS
  <2>1. w[j] = s[j] /\ \A k \in j .. e - 1 : w[k] = s[k]
    BY <1>1
  <2>2. j + 1 < e => w[j + 1] = s[j + 1]
    BY <1>1
  <2> QED BY <2>1, <2>2 DEF Opens
<1>3. Refers(s, i, e) <=> Refers(w, i, e)
  <2>1. Refers(s, i, e) \/ Refers(w, i, e) => i \in 1 .. Len(s) /\ e \in 1 .. Len(s)
    BY <1>1 DEF Refers, Opens
  <2>2. ASSUME i \in 1 .. Len(s), e \in 1 .. Len(s)
        PROVE  Refers(s, i, e) <=> Refers(w, i, e)
    <3>1. i \in 1 .. Len(w) /\ e \in 1 .. Len(w) /\ w[e] = s[e]
      BY <1>1, <2>2
    <3>2. \A j \in 1 .. i - 1 : j \in 1 .. Len(s)
      BY <1>1, <2>2
    <3> QED BY <1>2, <2>2, <3>1, <3>2 DEF Refers
  <2> QED BY <2>1, <2>2
<1>4. Refers(s, i, e) => NameAt(s, i, e) = NameAt(w, i, e)
  <2> SUFFICES ASSUME Refers(s, i, e) PROVE NameAt(s, i, e) = NameAt(w, i, e)
    OBVIOUS
  <2>1. i + 1 \in 1 .. Len(s) /\ (e = i + 3 => i + 2 \in 1 .. Len(s))
    BY <1>1 DEF Refers, Opens
  <2>2. w[i + 1] = s[i + 1] /\ (e = i + 3 => w[i + 2] = s[i + 2])
    BY <1>1, <2>1
  <2> QED BY <2>2 DEF NameAt
<1> QED BY <1>3, <1>4 DEF w

(* A reference that begins in the second text is one of it.                *)
LEMMA RefersInSecond ==
  ASSUME NEW s \in Seq(Symbols), NEW t \in Seq(Symbols), NEW i \in Nat, NEW e \in Nat,
         Len(s) < i, Refers(s \o t, i, e)
  PROVE  /\ Refers(t, i - Len(s), e - Len(s))
         /\ NameAt(t, i - Len(s), e - Len(s)) = NameAt(s \o t, i, e)
<1> DEFINE w == s \o t
           n == Len(s)
           a == i - n
           z == e - n
<1>1. /\ Len(w) = n + Len(t) /\ n \in Nat /\ Len(t) \in Nat
      /\ \A k \in 1 .. Len(t) : w[n + k] = t[k]
  OBVIOUS
<1>2. Refers(w, i, e) /\ n < i
  OBVIOUS
<1> HIDE DEF w, n
<1>3. /\ a \in 1 .. Len(t) /\ z \in 1 .. Len(t) /\ i = n + a /\ e = n + z
      /\ a + 1 < z
  BY <1>1, <1>2 DEF Refers, Opens
<1> HIDE DEF a, z
<1>4. \A j \in 1 .. Len(t) : Opens(t, j, z) => Opens(w, n + j, e)
  <2> SUFFICES ASSUME NEW j \in 1 .. Len(t), Opens(t, j, z) PROVE Opens(w, n + j, e)
    OBVIOUS
  <2>1. w[n + j] = t[j] /\ j + 1 < z
    BY <1>1 DEF Opens
  <2>2. j + 1 \in 1 .. Len(t) /\ n + (j + 1) = (n + j) + 1 /\ (n + j) + 1 < e
    BY <1>1, <1>3, <2>1
  <2>3. w[(n + j) + 1] = t[j + 1]
    BY <1>1, <2>2
  <2>4. ASSUME NEW k \in (n + j) .. e - 1 PROVE w[k] # "]"
    <3>1. k - n \in j .. z - 1 /\ k - n \in 1 .. Len(t) /\ n + (k - n) = k
      BY <1>1, <1>3
    <3> QED BY <1>1, <3>1 DEF Opens
  <2> QED BY <2>1, <2>2, <2>3, <2>4 DEF Opens
<1>5. Opens(t, a, z)
  <2>1. w[n + a] = t[a]
    BY <1>1, <1>3
  <2>2. a + 1 \in 1 .. Len(t) /\ n + (a + 1) = i + 1
    BY <1>1, <1>3
  <2>3. w[i + 1] = t[a + 1]
    BY <1>1, <2>2
  <2>4. ASSUME NEW k \in a .. z - 1 PROVE t[k] # "]"
    <3>1. k \in 1 .. Len(t) /\ n + k \in i .. e - 1
      BY <1>1, <1>3
    <3>2. w[n + k] = t[k]
      BY <1>1, <3>1
    <3> QED BY <1>2, <3>1, <3>2 DEF Refers, Opens
  <2>5. w[i] = "[" /\ w[i + 1] \in {"K", "W"}
    BY <1>2 DEF Refers, Opens
  <2> QED BY <1>3, <2>1, <2>3, <2>4, <2>5 DEF Opens
<1>6. ASSUME NEW j \in 1 .. a - 1 PROVE ~Opens(t, j, z)
  <2>1. j \in 1 .. Len(t) /\ n + j \in 1 .. i - 1
    BY <1>1, <1>3
  <2> QED BY <1>2, <1>4, <2>1 DEF Refers
<1>7. t[z] = "]"
  BY <1>1, <1>2, <1>3 DEF Refers
<1>8. Refers(t, a, z)
  BY <1>3, <1>5, <1>6, <1>7 DEF Refers
<1>9. NameAt(t, a, z) = NameAt(w, i, e)
  <2>1. a + 1 \in 1 .. Len(t) /\ n + (a + 1) = i + 1
    BY <1>1, <1>3
  <2>a. a \in Int /\ z \in Int /\ n \in Int /\ i = n + a /\ e = n + z
    BY <1>1, <1>3
  <2>b. \A p, q, m \in Int : q = p + 3 <=> m + q = (m + p) + 3
    OBVIOUS
  <2>c. z = a + 3 <=> e = i + 3
    <3>1. z = a + 3 <=> n + z = (n + a) + 3
      BY <2>a, <2>b
    <3> QED BY <2>a, <3>1, Zenon
  <2>2. z = a + 3 => a + 2 \in 1 .. Len(t) /\ n + (a + 2) = i + 2
    BY <1>1, <1>3
  <2>3. w[i + 1] = t[a + 1] /\ (z = a + 3 => w[i + 2] = t[a + 2])
    BY <1>1, <2>1, <2>2
  <2> QED BY <2>c, <2>3 DEF NameAt
<1> QED BY <1>8, <1>9 DEF w, n, a, z

(* The last of some positions, zero if there are none.                     *)
LEMMA LastOfIs ==
  ASSUME NEW s \in Seq(Symbols), NEW c
  PROVE  /\ LastOf(Positions(s, c)) \in 0 .. Len(s)
         /\ LastOf(Positions(s, c)) # 0 => s[LastOf(Positions(s, c))] = c
         /\ \A i \in 1 .. Len(s) : s[i] = c => i <= LastOf(Positions(s, c))
<1> DEFINE P == Positions(s, c)
           n == Len(s)
<1>1. n \in Nat /\ DOMAIN s = 1 .. n
  OBVIOUS
<1> HIDE DEF n
<1>2. P = {i \in 1 .. n : s[i] = c}
  BY <1>1 DEF Positions
<1> HIDE DEF P
<1>3. CASE P = {}
  BY <1>1, <1>2, <1>3 DEF LastOf, P, n
<1>4. CASE P # {}
  <2>1. P \in SUBSET (1 .. n)
    BY <1>2
  <2>2. Greatest(P) \in P /\ \A j \in P : j <= Greatest(P)
    BY <1>1, <1>4, <2>1, GreatestIs
  <2>3. \E i \in P : \A j \in P : j <= i
    BY <2>2
  <2>4. LastOf(P) \in P /\ \A j \in P : j <= LastOf(P)
    BY <1>4, <2>3 DEF LastOf
  <2>5. LastOf(P) \in 1 .. n /\ s[LastOf(P)] = c
    BY <1>2, <2>4
  <2>6. \A i \in 1 .. n : s[i] = c => i \in P
    BY <1>2
  <2>7. LastOf(P) \in 0 .. n
    BY <1>1, <2>5
  <2> QED BY <2>4, <2>5, <2>6, <2>7 DEF P, n
<1> QED BY <1>3, <1>4

(* What the guard holds back is nothing or an open bracket and what follows*)
(* it; and every bracket it has shown is closed, unless it holds another.  *)
Held(t) == t # <<>> => t[1] = "[" /\ \A k \in 1 .. Len(t) : t[k] # "]"
Enclosed(s, t) ==
  \A i \in 1 .. Len(s) : s[i] = "[" =>
    \/ \E k \in i .. Len(s) : s[k] = "]"
    \/ t # <<>> /\ t[1] = "["

(* References with no other bracket inside name these sources.             *)
Inside(s, i, e) == \E k \in i + 1 .. e : s[k] = "["
Valid(s, ids) == \A i, e \in 1 .. Len(s) :
                   Refers(s, i, e) /\ ~Inside(s, i, e) => NameAt(s, i, e) \in ids

(* Showing a part of a text whose references are valid leaves them valid.  *)
LEMMA ShowKeepsValid ==
  ASSUME NEW s \in Seq(Symbols), NEW p \in Seq(Symbols), NEW q \in Seq(Symbols), NEW ids,
         Cited(p \o q) \subseteq ids, Valid(s, ids), Enclosed(s, p \o q)
  PROVE  Valid(s \o p, ids)
<1> DEFINE w == s \o p
           n == Len(s)
<1>1. /\ w \in Seq(Symbols) /\ p \o q \in Seq(Symbols) /\ n \in Nat
      /\ Len(w) = n + Len(p) /\ Len(p) \in Nat
      /\ \A k \in 1 .. n : w[k] = s[k]
  OBVIOUS
<1> SUFFICES ASSUME NEW i \in 1 .. Len(w), NEW e \in 1 .. Len(w), Refers(w, i, e),
                    ~Inside(w, i, e)
             PROVE  NameAt(w, i, e) \in ids
  BY DEF Valid
<1>2. i \in Nat /\ e \in Nat /\ i <= e
  BY <1>1 DEF Refers, Opens
<1>3. CASE e <= n
  <2>1. Refers(s, i, e) /\ NameAt(s, i, e) = NameAt(w, i, e)
    BY <1>2, <1>3, RefersInFirst
  <2>2. i \in 1 .. n /\ e \in 1 .. n
    BY <1>1, <1>2, <1>3
  <2>3. Inside(s, i, e) => Inside(w, i, e)
    <3> SUFFICES ASSUME NEW k \in i + 1 .. e, s[k] = "[" PROVE w[k] = "["
      BY DEF Inside
    <3>1. k \in 1 .. n
      BY <1>1, <2>2
    <3> QED BY <1>1, <3>1
  <2> QED BY <2>1, <2>2, <2>3 DEF Valid
<1>4. CASE n < i
  <2>1. /\ Refers(p, i - n, e - n) /\ NameAt(p, i - n, e - n) = NameAt(w, i, e)
    BY <1>2, <1>4, RefersInSecond
  <2>2. i - n \in Nat /\ e - n \in Nat /\ e - n <= Len(p)
    BY <1>1, <1>2, <1>4
  <2>3. /\ Refers(p \o q, i - n, e - n)
        /\ NameAt(p, i - n, e - n) = NameAt(p \o q, i - n, e - n)
    BY <2>1, <2>2, RefersInFirst
  <2>4. NameAt(p \o q, i - n, e - n) \in Cited(p \o q)
    BY <1>1, <2>3, CitedIs
  <2> QED BY <2>1, <2>3, <2>4
<1>5. CASE i <= n /\ n < e
  <2>1. s[i] = "[" /\ \A k \in i .. n : s[k] # "]"
    <3>1. w[i] = "[" /\ \A k \in i .. e - 1 : w[k] # "]"
      BY DEF Refers, Opens
    <3>2. \A k \in i .. n : k \in i .. e - 1 /\ w[k] = s[k]
      BY <1>1, <1>2, <1>5
    <3>3. w[i] = s[i]
      BY <1>1, <1>2, <1>5
    <3> QED BY <3>1, <3>2, <3>3
  <2>2. i \in 1 .. n
    BY <1>1, <1>5
  <2>3. (p \o q)[1] = "["
    BY <2>1, <2>2 DEF Enclosed
  <2>4. 1 \in 1 .. Len(p)
    BY <1>1, <1>2, <1>5
  <2>5. w[n + 1] = p[1] /\ (p \o q)[1] = p[1]
    BY <2>4
  <2>6. n + 1 \in i + 1 .. e
    BY <1>1, <1>2, <1>5
  <2>7. Inside(w, i, e)
    BY <2>3, <2>5, <2>6 DEF Inside
  <2> QED BY <2>7
<1> QED BY <1>1, <1>2, <1>3, <1>4, <1>5

(* Up to the safe cut all brackets shown are enclosed, and the rest is one *)
(* that may be held back.                                                  *)
LEMMA CutKeepsEnclosed ==
  ASSUME NEW s \in Seq(Symbols), NEW t \in Seq(Symbols), Enclosed(s, t)
  PROVE  /\ SafeCut(t) \in 0 .. Len(t)
         /\ Enclosed(s \o SubSeq(t, 1, SafeCut(t)), SubSeq(t, SafeCut(t) + 1, Len(t)))
         /\ Held(SubSeq(t, SafeCut(t) + 1, Len(t)))
<1> DEFINE opening == LastOf(Positions(t, "["))
           closing == LastOf(Positions(t, "]"))
           m == Len(t)
           n == Len(s)
<1>1. m \in Nat /\ n \in Nat
  OBVIOUS
<1>2. opening \in 0 .. m /\ (opening # 0 => t[opening] = "[")
        /\ \A i \in 1 .. m : t[i] = "[" => i <= opening
  BY LastOfIs
<1>3. closing \in 0 .. m /\ (closing # 0 => t[closing] = "]")
        /\ \A i \in 1 .. m : t[i] = "]" => i <= closing
  BY LastOfIs
<1>4. SafeCut(t) = IF opening > closing THEN opening - 1 ELSE m
  BY DEF SafeCut
<1> HIDE DEF opening, closing
<1>5. CASE opening > closing
  <2> DEFINE rest == SubSeq(t, opening, m)
  <2>1. opening \in 1 .. m /\ t[opening] = "[" /\ SafeCut(t) = opening - 1
          /\ SafeCut(t) \in 0 .. m /\ SafeCut(t) + 1 = opening
    BY <1>1, <1>2, <1>3, <1>4, <1>5
  <2>a. Len(rest) = (m - opening) + 1
    BY <2>1
  <2>b. \A k \in 1 .. Len(rest) : rest[k] = t[(opening + k) - 1]
    BY <2>1
  <2>c. 1 \in 1 .. Len(rest) /\ (opening + 1) - 1 = opening
    BY <1>1, <2>1, <2>a
  <2>2. rest # <<>> /\ rest[1] = t[opening]
    <3> HIDE DEF rest
    <3>1. rest[1] = t[(opening + 1) - 1]
      BY <2>b, <2>c
    <3>2. rest[1] = t[opening]
      BY <2>c, <3>1
    <3>3. rest # <<>>
      BY <2>c
    <3> QED BY <3>2, <3>3
  <2>3. ASSUME NEW k \in 1 .. Len(rest) PROVE rest[k] # "]"
    <3>1. /\ (opening + k) - 1 \in 1 .. m /\ (opening + k) - 1 > closing
      BY <1>1, <1>3, <1>5, <2>1, <2>a
    <3>2. ~((opening + k) - 1 <= closing)
      BY <1>3, <3>1
    <3>3. t[(opening + k) - 1] # "]"
      BY <1>3, <3>1, <3>2
    <3> QED BY <2>b, <3>3
  <2> HIDE DEF rest
  <2>4. Held(rest)
    BY <2>1, <2>2, <2>3 DEF Held
  <2>5. \A x : Enclosed(x, rest)
    BY <2>1, <2>2 DEF Enclosed
  <2> QED BY <2>1, <2>4, <2>5 DEF rest
<1>6. CASE ~(opening > closing)
  <2>1. SafeCut(t) = m /\ SafeCut(t) \in 0 .. m
    BY <1>1, <1>4, <1>6
  <2>2. SubSeq(t, 1, m) = t /\ SubSeq(t, m + 1, m) = <<>>
    OBVIOUS
  <2> DEFINE w == s \o t
  <2>3. /\ Len(w) = n + m /\ \A k \in 1 .. n : w[k] = s[k]
        /\ \A k \in 1 .. m : w[n + k] = t[k]
    OBVIOUS
  <2> HIDE DEF w, m, n
  <2>4. closing # 0 => n + closing \in 1 .. Len(w) /\ w[n + closing] = "]"
    BY <1>1, <1>3, <2>3
  <2>5. ASSUME NEW i \in 1 .. Len(w), w[i] = "["
        PROVE  \E k \in i .. Len(w) : w[k] = "]"
    <3>1. CASE i <= n /\ \E k \in i .. n : s[k] = "]"
      <4>1. PICK k \in i .. n : s[k] = "]"
        BY <3>1
      <4>2. k \in i .. Len(w) /\ w[k] = "]"
        BY <1>1, <2>3, <4>1
      <4> QED BY <4>2
    <3>2. CASE i <= n /\ ~(\E k \in i .. n : s[k] = "]")
      <4>1. i \in 1 .. n /\ s[i] = "["
        BY <1>1, <2>3, <2>5, <3>2
      <4>2. t # <<>> /\ t[1] = "["
        BY <3>2, <4>1 DEF Enclosed, n
      <4>3. 1 \in 1 .. m
        BY <4>2 DEF m
      <4>4. 1 <= opening /\ closing # 0
        BY <1>1, <1>2, <1>3, <1>6, <4>2, <4>3
      <4>5. n + closing \in i .. Len(w)
        BY <1>1, <1>3, <2>4, <3>2, <4>4
      <4> QED BY <2>4, <4>4, <4>5
    <3>3. CASE n < i
      <4>1. i - n \in 1 .. m /\ n + (i - n) = i
        BY <1>1, <2>3, <3>3
      <4>2. t[i - n] = "["
        BY <2>3, <2>5, <4>1
      <4>3. i - n <= opening /\ i - n <= closing /\ closing # 0
        BY <1>1, <1>2, <1>3, <1>6, <4>1, <4>2
      <4>4. n + closing \in i .. Len(w)
        BY <1>1, <1>3, <2>4, <4>1, <4>3
      <4> QED BY <2>4, <4>3, <4>4
    <3> QED BY <1>1, <3>1, <3>2, <3>3
  <2>6. Enclosed(w, <<>>)
    BY <2>5 DEF Enclosed
  <2>7. Held(<<>>)
    BY DEF Held
  <2> QED BY <2>1, <2>2, <2>6, <2>7 DEF w, m
<1> QED BY <1>5, <1>6

(* What is held has an open bracket, so that it cannot be let go.          *)
LEMMA HeldIsOpen ==
  ASSUME NEW t \in Seq(Symbols), Held(t),
         ~(LastOf(Positions(t, "[")) > LastOf(Positions(t, "]")))
  PROVE  t = <<>>
<1> SUFFICES ASSUME t # <<>> PROVE FALSE
  OBVIOUS
<1>1. 1 \in 1 .. Len(t) /\ t[1] = "[" /\ \A k \in 1 .. Len(t) : t[k] # "]"
  BY DEF Held
<1>2. 1 <= LastOf(Positions(t, "[")) /\ LastOf(Positions(t, "[")) \in Int
  BY <1>1, LastOfIs
<1>3. /\ LastOf(Positions(t, "]")) \in 0 .. Len(t)
      /\ LastOf(Positions(t, "]")) # 0 => t[LastOf(Positions(t, "]"))] = "]"
  BY LastOfIs
<1>4. LastOf(Positions(t, "]")) = 0
  BY <1>1, <1>3
<1> QED BY <1>2, <1>4

(* What follows what is held does not change how it begins.                *)
LEMMA EnclosedByMore ==
  ASSUME NEW s \in Seq(Symbols), NEW t \in Seq(Symbols), NEW d \in Seq(Symbols),
         Enclosed(s, t)
  PROVE  Enclosed(s, t \o d)
<1>1. t # <<>> => t \o d # <<>> /\ (t \o d)[1] = t[1]
  OBVIOUS
<1> QED BY <1>1 DEF Enclosed

(* A text names at most three sources of each kind, and in no other form.  *)
LEMMA NamesAre ==
  ASSUME NEW s \in Seq(Symbols), NEW c \in Contents, Cited(s) \subseteq Ids(c)
  PROVE  /\ Cited(s) \subseteq ({"K", "W"} \X (1 .. 3))
         /\ \A id \in Cited(s) :
               id[2] \in DOMAIN (IF id[1] = "K" THEN c.local ELSE c.web)
<1>1. ASSUME NEW id \in Cited(s)
      PROVE  /\ id \in ({"K", "W"} \X (1 .. 3))
             /\ id[2] \in DOMAIN (IF id[1] = "K" THEN c.local ELSE c.web)
  <2>1. PICK r \in References(s) : id = Names(s, r)
    BY DEF Cited
  <2>2. id = NameAt(s, r[1], r[2]) /\ Refers(s, r[1], r[2])
    BY <2>1, ReferencesAre
  <2>3. \/ \E i \in DOMAIN c.local : id = <<"K", i>>
        \/ \E i \in DOMAIN c.web : id = <<"W", i>>
    BY DEF Ids
  <2>4. id[2] \in DOMAIN (IF id[1] = "K" THEN c.local ELSE c.web)
    BY <2>3
  <2>5. id # <<"malformed">>
    BY <2>3
  <2>6. id = <<s[r[1] + 1], Digit[s[r[1] + 2]]>> /\ s[r[1] + 2] \in DOMAIN Digit
    BY <2>2, <2>5 DEF NameAt
  <2>7. s[r[1] + 1] \in {"K", "W"}
    BY <2>2 DEF Refers, Opens
  <2>8. \A x \in DOMAIN Digit : Digit[x] \in 1 .. 3
    BY DEF Digit
  <2> QED BY <2>4, <2>6, <2>7, <2>8
<1> QED BY <1>1

(* The empty text refers to nothing.                                       *)
LEMMA NothingCited == References(<<>>) = {} /\ Cited(<<>>) = {}
<1>1. References(<<>>) = {}
  BY DEF References, Positions
<1> QED BY <1>1 DEF Cited

-----------------------------------------------------------------------------
(* The invariant of the generation of an answer.                           *)

(* A stream shows what it has accepted; ask shows nothing and has no guard.*)
Streamed == /\ case.kind = "stream" => shown = generated
            /\ case.kind = "ask" => shown = <<>> /\ ~cleared

(* Nothing has been done before the context is there, and a stream is only *)
(* called again when it has shown nothing.                                 *)
Fresh == /\ pc = "prepare" => attempts = 0 /\ sources = {} /\ refused = NoContext
         /\ pc = "prepare" => generated = <<>> /\ shown = <<>>
         /\ pc = "call" /\ case.kind = "stream" => generated = <<>>

(* What is shown is valid, and what is pending will not change that.       *)
Guarded == /\ shown # <<>> => cleared
           /\ cleared => Held(pending)
           /\ Enclosed(shown, pending)
           /\ Valid(shown, Ids(context))

(* The prompt has the whole budget, or the reduced one after a refusal.    *)
Whole == ContextForMode(case.budget)
Reduced == ContextForMode(ReducedBudget)
Prompted ==
  pc \in {"call", "running", "validate"} =>
    /\ Combined(context) # <<>>
    /\ \/ refused = NoContext /\ context = Whole
       \/ context = Reduced /\ refused \in {Whole, Reduced} /\ refused # NoContext

(* A response has the sources it cites, all from the prompt.               *)
Answered ==
  pc = "done" => /\ sources = Cited(generated) /\ Cited(generated) \subseteq Ids(context)
                 /\ sources = {} => attempts = 0

GInv == /\ GenerationTypeOK /\ Streamed /\ Fresh /\ Guarded /\ Prompted /\ Answered

(* A case stays what it is, and so do its two contexts.                    *)
LEMMA CaseStays ==
  ASSUME UNCHANGED case
  PROVE  Whole' = Whole /\ Reduced' = Reduced
BY DEF Whole, Reduced, ContextForMode, ReducedBudget

(* The two contexts are of the right type, within their budgets, and the   *)
(* reduced one is below the other.                                         *)
LEMMA ContextsAre ==
  ASSUME case \in Cases
  PROVE  /\ Whole \in Contents /\ Reduced \in Contents
         /\ Combined(Whole) # <<>> => Length(Combined(Whole)) <= case.budget
         /\ Combined(Reduced) # <<>> => Length(Combined(Reduced)) <= ReducedBudget
         /\ Below(Reduced.local, Whole.local) /\ Below(Reduced.web, Whole.web)
         /\ Below(Reduced.local, Reduced.local) /\ Below(Reduced.web, Reduced.web)
<1>1. case.budget \in Nat
  BY CaseIs
<1>2. ReducedBudget \in Nat /\ ReducedBudget <= case.budget
  BY <1>1 DEF ReducedBudget
<1>3. ReducedBudget <= ReducedBudget
  BY <1>2
<1>4. Below(Reduced.local, Whole.local) /\ Below(Reduced.web, Whole.web)
  BY <1>1, <1>2, ModeContextGrows DEF Whole, Reduced
<1>5. Below(Reduced.local, Reduced.local) /\ Below(Reduced.web, Reduced.web)
  BY <1>2, <1>3, ModeContextGrows DEF Reduced
<1> QED BY <1>1, <1>2, <1>4, <1>5, ModeContextIsWithin DEF Whole, Reduced

(* The first call finds nothing done.                                      *)
LEMMA GInvInit == GenerationInit => GInv
<1> SUFFICES ASSUME GenerationInit PROVE GInv
  OBVIOUS
<1>1. <<>> \in Seq(Nat \ {0}) /\ <<>> \in Seq(Symbols)
  OBVIOUS
<1>2. GenerationTypeOK
  <2>1. 0 \in 0 .. MaxAttempts /\ 0 \in 0 .. MaxDeltas
    BY Settings
  <2>2. NoContext \in [local : Seq(Nat \ {0}), web : Seq(Nat \ {0})]
    BY <1>1 DEF NoContext
  <2>3. /\ {context, refused} \subseteq [local : Seq(Nat \ {0}), web : Seq(Nat \ {0})]
        /\ {generated, pending, shown} \subseteq Seq(Symbols)
    BY <1>1, <2>2 DEF GenerationInit
  <2>4. attempts = 0 /\ pieces = 0 /\ case \in Cases /\ pc = "prepare" /\ cleared = FALSE
        /\ sources = {}
    BY DEF GenerationInit
  <2> QED BY <2>1, <2>3, <2>4 DEF GenerationTypeOK
<1>3. Streamed /\ Fresh /\ Prompted /\ Answered
  BY DEF GenerationInit, Streamed, Fresh, Prompted, Answered
<1>4. Guarded
  <2>1. shown = <<>> /\ pending = <<>> /\ ~cleared /\ Len(<<>>) = 0
    BY DEF GenerationInit
  <2> QED BY <2>1 DEF Guarded, Enclosed, Valid
<1> QED BY <1>2, <1>3, <1>4 DEF GInv

(* What is guarded stays so while nothing is shown and nothing comes.      *)
LEMMA GuardedStays ==
  ASSUME Guarded, UNCHANGED <<context, pending, cleared, shown>>
  PROVE  Guarded'
BY DEF Guarded

(* The prompt stays while the sources do.                                  *)
LEMMA PromptedStays ==
  ASSUME Prompted, UNCHANGED <<case, context, refused>>,
         pc' \in {"call", "running", "validate"} => pc \in {"call", "running", "validate"}
  PROVE  Prompted'
BY CaseStays DEF Prompted

(* The context is prepared: the whole budget, nothing refused yet.         *)
LEMMA PrepareKeeps == ASSUME GInv, Prepare PROVE GInv'
<1> USE DEF GInv, Prepare
<1>1. /\ pc = "prepare" /\ UNCHANGED <<case, attempts, refused, generated, pending, cleared, shown>>
      /\ UNCHANGED <<pieces, sources>> /\ pc' \in {"done", "call", "failed"}
      /\ context' = Whole /\ (pc' \in {"call", "failed"} => Combined(context') # <<>>)
  BY DEF Whole
<1>2. attempts = 0 /\ sources = {} /\ refused = NoContext /\ generated = <<>> /\ shown = <<>>
  BY <1>1 DEF Fresh
<1>3. GenerationTypeOK'
  <2>1. context' \in Contents
    BY <1>1, ContextsAre DEF GenerationTypeOK
  <2> QED BY <1>1, <2>1 DEF GenerationTypeOK, Contents
<1>4. Streamed' /\ Fresh'
  BY <1>1, <1>2 DEF Streamed, Fresh
<1>5. Guarded'
  <2>1. Valid(shown', Ids(context'))
    BY <1>1, <1>2 DEF Valid
  <2> QED BY <1>1, <2>1 DEF Guarded
<1>6. Prompted'
  BY <1>1, <1>2, CaseStays DEF Prompted
<1>7. Answered'
  BY <1>1, <1>2, NothingCited DEF Answered
<1> QED BY <1>3, <1>4, <1>5, <1>6, <1>7

(* A call starts with nothing received; a stream has shown nothing.        *)
LEMMA CallKeeps == ASSUME GInv, Call PROVE GInv'
<1> USE DEF GInv, Call
<1>1. <<>> \in Seq(Symbols) /\ attempts + 1 \in 0 .. MaxAttempts
  BY Settings DEF GenerationTypeOK
<1>2. shown = <<>>
  BY CaseIs DEF GenerationTypeOK, Streamed, Fresh
<1>3. GenerationTypeOK'
  <2>1. 0 \in 0 .. MaxDeltas
    BY Settings
  <2>2. {generated', pending', shown'} \subseteq Seq(Symbols)
    BY <1>1, <1>2
  <2>3. {context', refused'} \subseteq [local : Seq(Nat \ {0}), web : Seq(Nat \ {0})]
    BY DEF GenerationTypeOK
  <2> QED BY <1>1, <2>1, <2>2, <2>3 DEF GenerationTypeOK
<1>4. Streamed' /\ Fresh' /\ Answered'
  BY <1>2 DEF Streamed, Fresh, Answered
<1>5. Guarded'
  BY <1>2 DEF Guarded, Enclosed, Valid, Held
<1>6. Prompted'
  BY PromptedStays
<1> QED BY <1>3, <1>4, <1>5, <1>6

(* ask gathers pieces; nothing is shown.                                   *)
LEMMA ReceiveKeeps == ASSUME GInv, Receive PROVE GInv'
<1> USE DEF GInv, Receive
<1>1. generated' \in Seq(Symbols) /\ pieces + 1 \in 0 .. MaxDeltas
  BY Settings DEF GenerationTypeOK
<1>2. GenerationTypeOK'
  BY <1>1 DEF GenerationTypeOK
<1>3. Streamed' /\ Fresh' /\ Answered'
  BY DEF Streamed, Fresh, Answered
<1>4. Guarded' /\ Prompted'
  BY GuardedStays, PromptedStays
<1> QED BY <1>2, <1>3, <1>4

(* All pieces have come.                                                   *)
LEMMA ReceivedKeeps == ASSUME GInv, Received PROVE GInv'
<1> USE DEF GInv, Received
<1>1. GenerationTypeOK'
  BY DEF GenerationTypeOK
<1>2. Streamed' /\ Fresh' /\ Answered'
  BY DEF Streamed, Fresh, Answered
<1>3. Guarded' /\ Prompted'
  BY GuardedStays, PromptedStays
<1> QED BY <1>1, <1>2, <1>3

(* A text is what comes before a position and what comes after it.         *)
LEMMA TextSplits ==
  ASSUME NEW s \in Seq(Symbols), NEW u \in 0 .. Len(s)
  PROVE  /\ SubSeq(s, 1, u) \in Seq(Symbols) /\ SubSeq(s, u + 1, Len(s)) \in Seq(Symbols)
         /\ SubSeq(s, 1, u) \o SubSeq(s, u + 1, Len(s)) = s
<1> DEFINE p == SubSeq(s, 1, u)
           q == SubSeq(s, u + 1, Len(s))
<1>1. p \in Seq(Symbols) /\ Len(p) = u /\ \A k \in 1 .. u : p[k] = s[k]
  OBVIOUS
<1>2. q \in Seq(Symbols) /\ Len(q) = Len(s) - u
  OBVIOUS
<1>3. \A k \in 1 .. Len(s) - u : q[k] = s[u + k]
  OBVIOUS
<1>a. Len(s) \in Nat /\ u \in Nat
  OBVIOUS
<1>b. \A x, y \in Seq(Symbols) :
        Len(x) = Len(y) /\ (\A k \in 1 .. Len(y) : x[k] = y[k]) => x = y
  OBVIOUS
<1> HIDE DEF p, q
<1>4. p \o q \in Seq(Symbols) /\ Len(p \o q) = Len(s)
  BY <1>1, <1>2
<1>5. ASSUME NEW k \in 1 .. Len(s) PROVE (p \o q)[k] = s[k]
  <2>1. CASE k <= u
    <3>1. k \in 1 .. u
      BY <2>1
    <3>2. (p \o q)[k] = p[k]
      BY <1>1, <1>2, <3>1
    <3> QED BY <1>1, <3>1, <3>2
  <2>2. CASE u < k
    <3>1. k - u \in 1 .. Len(s) - u /\ u + (k - u) = k
      BY <2>2
    <3>2. (p \o q)[k] = q[k - u]
      BY <1>1, <1>2, <2>2
    <3> QED BY <1>3, <3>1, <3>2
  <2>3. k <= u \/ u < k
    BY <1>a
  <2> QED BY <2>1, <2>2, <2>3, Zenon
<1>6. p \o q = s
  BY <1>4, <1>5, <1>b
<1> QED BY <1>1, <1>2, <1>6 DEF p, q

(* A piece of a stream: what it completes is checked before it is shown.   *)
LEMMA FeedKeeps == ASSUME GInv, Feed PROVE GInv'
<1>1. /\ GenerationTypeOK /\ Streamed /\ Fresh /\ Guarded /\ Prompted /\ Answered
      /\ pc = "running" /\ case.kind = "stream"
      /\ UNCHANGED <<case, attempts, context, refused, sources>>
      /\ pieces' \in 0 .. MaxDeltas
  BY Settings DEF GInv, Feed, GenerationTypeOK
<1>2. PICK d \in Deltas :
        IF ~(Cited(pending \o d) \subseteq Ids(context))
        THEN pc' = "failed" /\ UNCHANGED <<generated, pending, cleared, shown>>
        ELSE /\ cleared' = (cleared \/ Cited(pending \o d) # {})
             /\ LET cut == IF cleared' THEN SafeCut(pending \o d) ELSE 0
                IN /\ Emit(SubSeq(pending \o d, 1, cut))
                   /\ pending' = SubSeq(pending \o d, cut + 1, Len(pending \o d))
             /\ UNCHANGED pc
  BY DEF Feed
<1>3. CASE ~(Cited(pending \o d) \subseteq Ids(context))
  <2>1. pc' = "failed" /\ UNCHANGED <<generated, pending, cleared, shown>>
    BY <1>2, <1>3
  <2>2. GenerationTypeOK'
    BY <1>1, <2>1 DEF GenerationTypeOK
  <2>3. Streamed' /\ Fresh' /\ Answered'
    BY <1>1, <2>1 DEF Streamed, Fresh, Answered
  <2>4. Guarded' /\ Prompted'
    BY <1>1, <2>1, GuardedStays, PromptedStays
  <2> QED BY <2>2, <2>3, <2>4 DEF GInv
<1>4. CASE Cited(pending \o d) \subseteq Ids(context)
  <2> DEFINE text == pending \o d
             upTo == IF cleared' THEN SafeCut(text) ELSE 0
             p == SubSeq(text, 1, upTo)
             q == SubSeq(text, upTo + 1, Len(text))
  <2>1. /\ cleared' = (cleared \/ Cited(text) # {}) /\ pc' = pc
        /\ generated' = generated \o p /\ shown' = shown \o p /\ pending' = q
    BY <1>2, <1>4 DEF Emit
  <2>2. /\ pending \in Seq(Symbols) /\ shown \in Seq(Symbols) /\ generated \in Seq(Symbols)
        /\ d \in Seq(Symbols) /\ cleared \in BOOLEAN
    BY <1>1, Settings DEF GenerationTypeOK
  <2>3. text \in Seq(Symbols) /\ Len(text) \in Nat
    BY <2>2
  <2>4. Enclosed(shown, text)
    BY <1>1, <2>2, EnclosedByMore DEF Guarded
  <2>5. /\ SafeCut(text) \in 0 .. Len(text)
        /\ Enclosed(shown \o SubSeq(text, 1, SafeCut(text)),
                    SubSeq(text, SafeCut(text) + 1, Len(text)))
        /\ Held(SubSeq(text, SafeCut(text) + 1, Len(text)))
    BY <2>2, <2>3, <2>4, CutKeepsEnclosed
  <2>6. Cited(text) \subseteq Ids(context)
    BY <1>4
  <2> HIDE DEF text
  <2>7. upTo \in 0 .. Len(text)
    BY <2>3, <2>5
  <2>8. p \in Seq(Symbols) /\ q \in Seq(Symbols) /\ p \o q = text
    BY <2>3, <2>7, TextSplits
  <2>9. /\ shown' \in Seq(Symbols) /\ generated' \in Seq(Symbols) /\ pending' \in Seq(Symbols)
        /\ cleared' \in BOOLEAN
    <3> HIDE DEF p, q
    <3> QED BY <2>1, <2>2, <2>8
  <2>10. GenerationTypeOK'
    BY <1>1, <2>1, <2>9 DEF GenerationTypeOK
  <2>11. Streamed' /\ Fresh' /\ Answered'
    BY <1>1, <2>1 DEF Streamed, Fresh, Answered
  <2>12. Prompted'
    BY <1>1, <2>1, PromptedStays
  <2>13. Valid(shown', Ids(context)')
    <3> HIDE DEF p, q
    <3>1. Valid(shown, Ids(context)) /\ Ids(context)' = Ids(context)
      BY <1>1 DEF Guarded, Ids
    <3>2. Cited(p \o q) \subseteq Ids(context) /\ Enclosed(shown, p \o q)
      BY <2>4, <2>6, <2>8
    <3>3. Valid(shown \o p, Ids(context))
      BY <2>2, <2>8, <3>1, <3>2, ShowKeepsValid
    <3> QED BY <2>1, <3>1, <3>3
  <2>14. CASE cleared'
    <3>1. Held(pending') /\ Enclosed(shown', pending')
      BY <2>1, <2>5, <2>14
    <3> QED BY <2>10, <2>11, <2>12, <2>13, <2>14, <3>1 DEF GInv, Guarded
  <2>15. CASE ~cleared'
    <3>1. shown = <<>>
      BY <1>1, <2>1, <2>15 DEF Guarded
    <3>2. p = <<>>
      BY <2>3, <2>15
    <3>3. shown' = <<>>
      BY <2>1, <3>1, <3>2
    <3>4. Enclosed(shown', pending')
      BY <3>3 DEF Enclosed
    <3> QED BY <2>10, <2>11, <2>12, <2>13, <2>15, <3>3, <3>4 DEF GInv, Guarded
  <2> QED BY <2>14, <2>15
<1> QED BY <1>3, <1>4

(* A stream ends: what is held is let go only when nothing is.             *)
LEMMA FinishKeeps == ASSUME GInv, Finish PROVE GInv'
<1> USE DEF GInv
<1>1. /\ pc = "running" /\ case.kind = "stream"
      /\ UNCHANGED <<case, attempts, context, refused, cleared, pieces, sources>>
      /\ \/ pc' = "failed" /\ UNCHANGED <<generated, pending, shown>>
         \/ /\ pc' = "validate" /\ cleared
            /\ ~(LastOf(Positions(pending, "[")) > LastOf(Positions(pending, "]")))
            /\ generated' = generated \o pending /\ shown' = shown \o pending
            /\ pending' = <<>>
  BY DEF Finish, Emit
<1>2. pending \in Seq(Symbols) /\ shown \in Seq(Symbols) /\ generated \in Seq(Symbols)
  BY DEF GenerationTypeOK
<1>3. UNCHANGED <<generated, pending, shown>>
  <2>1. ASSUME cleared, ~(LastOf(Positions(pending, "[")) > LastOf(Positions(pending, "]")))
        PROVE  pending = <<>>
    BY <1>2, <2>1, HeldIsOpen DEF Guarded
  <2>2. generated \o <<>> = generated /\ shown \o <<>> = shown
    BY <1>2
  <2> QED BY <1>1, <2>1, <2>2
<1>4. GenerationTypeOK'
  BY <1>1, <1>3 DEF GenerationTypeOK
<1>5. Streamed' /\ Fresh' /\ Answered'
  BY <1>1, <1>3 DEF Streamed, Fresh, Answered
<1>6. Guarded' /\ Prompted'
  BY <1>1, <1>3, GuardedStays, PromptedStays
<1> QED BY <1>4, <1>5, <1>6

(* What may be tried again has shown nothing.                              *)
LEMMA NothingShownYet ==
  ASSUME GInv, MayRetry
  PROVE  shown = <<>> /\ (case.kind = "stream" => generated = <<>>)
BY CaseIs DEF GInv, MayRetry, Streamed, GenerationTypeOK

(* The prompt is too long: six tenths of the budget, if the call may be    *)
(* repeated.                                                               *)
LEMMA TooLongKeeps == ASSUME GInv, TooLong PROVE GInv'
<1> USE DEF GInv
<1>1. /\ pc = "running"
      /\ UNCHANGED <<case, attempts, generated, pending, cleared, shown, pieces, sources>>
      /\ \/ pc' = "failed" /\ UNCHANGED <<context, refused>>
         \/ /\ MayRetry /\ context' = Reduced /\ refused' = context
            /\ pc' \in {"call", "failed"} /\ (pc' = "call" => Combined(context') # <<>>)
  BY DEF TooLong, Fails, Shrink, Reduced
<1>2. CASE pc' = "failed" /\ UNCHANGED <<context, refused>>
  <2>1. GenerationTypeOK'
    BY <1>1, <1>2 DEF GenerationTypeOK
  <2>2. Streamed' /\ Fresh' /\ Answered'
    BY <1>1, <1>2 DEF Streamed, Fresh, Answered
  <2>3. Guarded' /\ Prompted'
    BY <1>1, <1>2, GuardedStays, PromptedStays
  <2> QED BY <2>1, <2>2, <2>3
<1>3. CASE /\ MayRetry /\ context' = Reduced /\ refused' = context
           /\ pc' \in {"call", "failed"} /\ (pc' = "call" => Combined(context') # <<>>)
  <2>1. shown = <<>> /\ (case.kind = "stream" => generated = <<>>)
    BY <1>3, NothingShownYet
  <2>2. GenerationTypeOK'
    <3>1. context' \in Contents /\ refused' \in Contents
      BY <1>3, ContextsAre DEF GenerationTypeOK, Contents
    <3> QED BY <1>1, <1>3, <3>1 DEF GenerationTypeOK, Contents
  <2>3. Streamed' /\ Fresh' /\ Answered'
    BY <1>1, <1>3, <2>1 DEF Streamed, Fresh, Answered
  <2>4. Guarded'
    <3>1. Valid(shown', Ids(context'))
      BY <1>1, <2>1 DEF Valid
    <3> QED BY <1>1, <3>1 DEF Guarded
  <2>5. Prompted'
    <3>1. context \in {Whole, Reduced} /\ Combined(context) # <<>>
      BY <1>1 DEF Prompted
    <3>2. context # NoContext
      BY <3>1 DEF Combined, NoContext
    <3> QED BY <1>1, <1>3, <3>1, <3>2, CaseStays DEF Prompted
  <2> QED BY <2>2, <2>3, <2>4, <2>5
<1> QED BY <1>1, <1>2, <1>3

(* A failure that passes.                                                  *)
LEMMA TransientKeeps == ASSUME GInv, Transient PROVE GInv'
<1> USE DEF GInv
<1>1. /\ pc = "running" /\ pc' \in {"call", "failed"} /\ (pc' = "call" => MayRetry)
      /\ UNCHANGED <<case, attempts, context, refused, generated, pending, cleared, shown>>
      /\ UNCHANGED <<pieces, sources>>
  BY DEF Transient
<1>2. pc' = "call" /\ case.kind = "stream" => generated = <<>>
  BY <1>1, NothingShownYet
<1>3. GenerationTypeOK'
  BY <1>1 DEF GenerationTypeOK
<1>4. Streamed' /\ Fresh' /\ Answered'
  BY <1>1, <1>2 DEF Streamed, Fresh, Answered
<1>5. Guarded' /\ Prompted'
  BY <1>1, GuardedStays, PromptedStays
<1> QED BY <1>3, <1>4, <1>5

(* One that does not.                                                      *)
LEMMA FatalKeeps == ASSUME GInv, Fatal PROVE GInv'
<1> USE DEF GInv
<1>1. /\ pc' = "failed"
      /\ UNCHANGED <<case, attempts, context, refused, generated, pending, cleared, shown>>
      /\ UNCHANGED <<pieces, sources>>
  BY DEF Fatal, Fails
<1>2. GenerationTypeOK'
  BY <1>1 DEF GenerationTypeOK
<1>3. Streamed' /\ Fresh' /\ Answered'
  BY <1>1 DEF Streamed, Fresh, Answered
<1>4. Guarded' /\ Prompted'
  BY <1>1, GuardedStays, PromptedStays
<1> QED BY <1>2, <1>3, <1>4

(* The answer is accepted, or asked for again, or given up.                *)
LEMMA RespondKeeps == ASSUME GInv, Respond PROVE GInv'
<1> USE DEF GInv
<1>1. /\ pc = "validate"
      /\ UNCHANGED <<case, attempts, context, refused, generated, pending, cleared, shown>>
      /\ UNCHANGED pieces
      /\ \/ /\ pc' = "done" /\ sources' = Cited(generated)
            /\ Cited(generated) # {} /\ Cited(generated) \subseteq Ids(context)
         \/ /\ pc' \in {"call", "failed"} /\ sources' = sources
            /\ pc' = "call" => case.kind = "ask"
  BY DEF Respond, Acceptable
<1>2. sources' \subseteq ({"K", "W"} \X (1 .. 3))
  <2>1. generated \in Seq(Symbols) /\ context \in Contents
    BY DEF GenerationTypeOK, Contents
  <2>2. Cited(generated) \subseteq Ids(context) =>
           Cited(generated) \subseteq ({"K", "W"} \X (1 .. 3))
    BY <2>1, NamesAre
  <2> QED BY <1>1, <2>2 DEF GenerationTypeOK
<1>3. GenerationTypeOK'
  BY <1>1, <1>2 DEF GenerationTypeOK
<1>4. Streamed' /\ Fresh'
  BY <1>1 DEF Streamed, Fresh
<1>5. Answered'
  BY <1>1 DEF Answered
<1>6. Guarded' /\ Prompted'
  BY <1>1, GuardedStays, PromptedStays
<1> QED BY <1>3, <1>4, <1>5, <1>6

(* A stutter.                                                              *)
LEMMA GenerationStutterKeeps == ASSUME GInv, UNCHANGED generationVars PROVE GInv'
<1> USE DEF GInv, generationVars
<1>1. GenerationTypeOK'
  BY DEF GenerationTypeOK
<1>2. Streamed' /\ Fresh' /\ Answered'
  BY DEF Streamed, Fresh, Answered
<1>3. Guarded' /\ Prompted'
  BY GuardedStays, PromptedStays
<1> QED BY <1>1, <1>2, <1>3

(* Every step keeps the invariant, by its action.                          *)
LEMMA GInvStep == ASSUME GInv, [GenerationNext]_generationVars PROVE GInv'
BY PrepareKeeps, CallKeeps, ReceiveKeeps, ReceivedKeeps, FeedKeeps, FinishKeeps,
   TooLongKeeps, TransientKeeps, FatalKeeps, RespondKeeps, GenerationStutterKeeps
   DEF GenerationNext

(* What holds of every answer while it is generated, and after it: the     *)
(* text, the guard and the prompt (_generate and _CitationStreamGuard).    *)
THEOREM GenerationInvariance == GenerationSpec => []GInv
BY GInvInit, GInvStep, PTL DEF GenerationSpec

(* The client of a stream has what is returned and stored, once: a call    *)
(* that has shown something is not repeated.                               *)
THEOREM TheShownIsTheAnswer == GenerationSpec => []ShownIsTheAnswer
<1>1. GInv => ShownIsTheAnswer
  BY DEF GInv, Streamed, ShownIsTheAnswer
<1> QED BY <1>1, GenerationInvariance, PTL

(* A reference a client has seen names a source of the prompt, in whatever *)
(* pieces the model gave it; a response has the sources its answer cites.  *)
THEOREM CitationsStayValid == GenerationSpec => []CitationsAreValid
<1>1. ASSUME GInv PROVE CitationsAreValid
  <2>1. shown \in Seq(Symbols) /\ generated \in Seq(Symbols) /\ context \in Contents
    BY <1>1 DEF GInv, GenerationTypeOK, Contents
  <2>2. ASSUME NEW r \in References(shown), ~(\E i \in r[1] + 1 .. r[2] : shown[i] = "[")
        PROVE  Names(shown, r) \in Ids(context)
    <3>1. Refers(shown, r[1], r[2]) /\ Names(shown, r) = NameAt(shown, r[1], r[2])
      BY <2>1, ReferencesAre
    <3>2. r[1] \in 1 .. Len(shown) /\ r[2] \in 1 .. Len(shown)
      BY <3>1 DEF Refers
    <3>3. ~Inside(shown, r[1], r[2])
      BY <2>2 DEF Inside
    <3>4. Valid(shown, Ids(context))
      BY <1>1 DEF GInv, Guarded
    <3> QED BY <3>1, <3>2, <3>3, <3>4 DEF Valid
  <2>3. shown # <<>> => cleared
    BY <1>1 DEF GInv, Guarded
  <2>4. pc = "done" => /\ sources = Cited(generated)
                       /\ Cited(generated) \subseteq Ids(context)
                       /\ sources = {} => attempts = 0
    BY <1>1 DEF GInv, Answered
  <2>5. Cited(generated) \subseteq Ids(context) =>
          \A id \in Cited(generated) :
             id[2] \in DOMAIN (IF id[1] = "K" THEN context.local ELSE context.web)
    BY <2>1, NamesAre
  <2> QED BY <2>2, <2>3, <2>4, <2>5 DEF CitationsAreValid
<1> QED BY <1>1, GenerationInvariance, PTL

(* The prompt is within its budget, after a refusal within six tenths of   *)
(* it and no source of it is new or longer: for every evidence, share and  *)
(* overhead of a source.                                                   *)
THEOREM PromptsFit == GenerationSpec => []ContextFits
<1>1. ASSUME GInv PROVE ContextFits
  <2>1. GenerationTypeOK /\ case \in Cases
    BY <1>1 DEF GInv, GenerationTypeOK
  <2>2. CASE pc = "running"
    <3>1. /\ Combined(context) # <<>>
          /\ \/ refused = NoContext /\ context = Whole
             \/ context = Reduced /\ refused \in {Whole, Reduced} /\ refused # NoContext
      BY <1>1, <2>2 DEF GInv, Prompted
    <3>2. Length(Combined(context)) <=
             (IF refused = NoContext THEN case.budget ELSE ReducedBudget)
      BY <2>1, <3>1, ContextsAre
    <3>3. refused # NoContext =>
             Below(context.local, refused.local) /\ Below(context.web, refused.web)
      BY <2>1, <3>1, ContextsAre
    <3>4. ASSUME refused # NoContext, NEW side \in {"local", "web"},
                 NEW i \in DOMAIN context[side]
          PROVE  i \in DOMAIN refused[side] /\ context[side][i] <= refused[side][i]
      <4>1. CASE side = "local"
        BY <3>3, <3>4, <4>1 DEF Below
      <4>2. CASE side = "web"
        BY <3>3, <3>4, <4>2 DEF Below
      <4> QED BY <4>1, <4>2
    <3> QED BY <2>1, <3>1, <3>2, <3>4 DEF ContextFits
  <2> QED BY <2>1, <2>2 DEF ContextFits
<1> QED BY <1>1, GenerationInvariance, PTL
=============================================================================
