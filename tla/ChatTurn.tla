------------------------------- MODULE ChatTurn -------------------------------
(***************************************************************************)
(* The answers of one chat session (api/chat.py, chat_history_service.py,  *)
(* session_repository.py, the active chats of runtime_coordinator.py):     *)
(* an answer is a row in SQLite, the right to generate in a session is an  *)
(* entry in a table of the process, the stop of an answer a flag in that   *)
(* entry, and nothing but the request that generates connects the three.   *)
(*                                                                         *)
(* A request is "sync" (POST /chat), "stream" or "retry" of an answer.     *)
(* Its steps are the points between which other threads, or the client     *)
(* that leaves, can come; each action is one commit or one access to the   *)
(* table, with the checks that lead to it.  Simplifications:               *)
(*  - one session; a request that begin_chat refuses changes nothing and   *)
(*    is not a step;                                                       *)
(*  - content, sources and retrieval audit of an answer are left out;      *)
(*    feedback too;                                                        *)
(*  - the check that a knowledge base may be written to and the commit     *)
(*    after it are one step; SQLite does not fail;                         *)
(*  - a stop request that passed its check can reach the table any time    *)
(*    later, and any number of times.                                      *)
(***************************************************************************)
EXTENDS Integers

CONSTANTS Requests,    \* requests to answer or to retry, each used once
          Answers,     \* identities of assistant messages
          None,        \* no answer
          MaxRestarts  \* bound on ends of the process

ASSUME ConstantsAssumption == None \notin Answers /\ MaxRestarts \in Nat

VARIABLES
  session,     \* of the row: "none", "open", "deleted"
  status,      \* MessageStatus of each answer, "none" before, "deleted" after
  errors,      \* the answers that have an error_code
  rebuilding,  \* a KB_REBUILD of the knowledge base is queued or running
  occupied, bound, stop,  \* the ActiveChat of the session and its two fields
  kind, step, answer,     \* of each request
  original,    \* status that a retried answer had
  asked,       \* answers for which a stop request passed its check
  deleting,    \* a request to delete found the session without active chat
  restarts

chats == <<occupied, bound, stop>>
rows == <<session, status, errors>>
vars == <<session, status, errors, rebuilding, occupied, bound, stop,
          kind, step, answer, original, asked, deleting, restarts>>

Kinds == {"sync", "stream", "retry"}
Ended == {"COMPLETE", "FAILED", "CANCELLED"}
Statuses == {"none", "STREAMING", "deleted"} \union Ended

\* The request generates, and its `finally` is still to come.
Generating == {"started", "greeting", "working", "answered", "failing", "telling"}
Holding == {"begun", "closing", "dropping"} \union Generating
Steps == {"new", "unslotted", "done", "left", "refused"} \union Holding

TypeOK == /\ session \in {"none", "open", "deleted"}
          /\ status \in [Answers -> Statuses]
          /\ errors \subseteq Answers
          /\ rebuilding \in BOOLEAN /\ occupied \in BOOLEAN
          /\ bound \in Answers \union {None}
          /\ stop \in BOOLEAN
          /\ kind \in [Requests -> Kinds]
          /\ step \in [Requests -> Steps]
          /\ answer \in [Requests -> Answers \union {None}]
          /\ original \in [Requests -> Ended]
          /\ asked \subseteq Answers
          /\ deleting \in BOOLEAN
          /\ restarts \in 0 .. MaxRestarts
-----------------------------------------------------------------------------
(* _get_writable_knowledge_base and _get_owned_session.                    *)
Writable == session = "open" /\ ~rebuilding

Take == /\ ~occupied
        /\ occupied' = TRUE /\ bound' = None /\ stop' = FALSE
Free == occupied' = FALSE /\ bound' = None /\ stop' = FALSE

Go(r, s) == step' = [step EXCEPT ![r] = s]

(* What a step of a request leaves alone unless it starts one.             *)
Started == <<kind, answer, original>>
Others == <<rebuilding, asked, deleting, restarts>>

Init == /\ session = "none"
        /\ status = [a \in Answers |-> "none"]
        /\ errors = {} /\ asked = {}
        /\ rebuilding = FALSE /\ deleting = FALSE
        /\ occupied = FALSE /\ bound = None /\ stop = FALSE
        /\ kind = [r \in Requests |-> "sync"]
        /\ step = [r \in Requests |-> "new"]
        /\ answer = [r \in Requests |-> None]
        /\ original = [r \in Requests |-> "FAILED"]
        /\ restarts = 0
-----------------------------------------------------------------------------
(* A request for a session that exists takes its place first ...           *)
BeginChat(r) ==
  /\ step[r] = "new" /\ session # "none"
  /\ Take
  /\ \E k \in Kinds : kind' = [kind EXCEPT ![r] = k]
  /\ Go(r, "begun")
  /\ UNCHANGED <<rows, answer, original, Others>>

(* Question and answer are one commit.                                     *)
SaveTurn(r, a) ==
  /\ status[a] = "none"
  /\ status' = [status EXCEPT ![a] = "STREAMING"]
  /\ answer' = [answer EXCEPT ![r] = a]
  /\ UNCHANGED <<errors, original, Others>>

StartTurn(r) ==
  /\ step[r] = "begun" /\ kind[r] # "retry" /\ Writable
  /\ \E a \in Answers : SaveTurn(r, a)
  /\ Go(r, IF kind[r] = "sync" THEN "working" ELSE "started")
  /\ UNCHANGED <<session, kind, chats>>

(* ... one that has no session yet creates it, for everyone to see, first. *)
StartSession(r) ==
  /\ step[r] = "new" /\ session = "none" /\ ~rebuilding
  /\ session' = "open"
  /\ \E k \in {"sync", "stream"} : kind' = [kind EXCEPT ![r] = k]
  /\ \E a \in Answers : SaveTurn(r, a)
  /\ Go(r, "unslotted")
  /\ UNCHANGED chats

(* MUTANT of BeginChatLate: the chat of another request is ended.         *)
BeginChatLateEndsChat(r) ==
  /\ step[r] = "unslotted"
  /\ \/ Take /\ Go(r, IF kind[r] = "sync" THEN "working" ELSE "started")
     \/ occupied /\ Go(r, "refused") /\ Free
  /\ UNCHANGED <<rows, Started, Others>>

BeginChatLate(r) ==
  /\ step[r] = "unslotted"
  /\ \/ /\ Take
        /\ Go(r, IF kind[r] = "sync" THEN "working" ELSE "started")
     \/ /\ occupied
        /\ Go(r, "refused")
        /\ UNCHANGED chats
  /\ UNCHANGED <<rows, Started, Others>>

(* The row keeps its status while it is retried, but not its error.        *)
PrepareRetry(r) ==
  /\ step[r] = "begun" /\ kind[r] = "retry" /\ Writable
  /\ \E a \in Answers :
       /\ status[a] \in Ended
       /\ answer' = [answer EXCEPT ![r] = a]
       /\ original' = [original EXCEPT ![r] = status[a]]
       /\ errors' = errors \ {a}
  /\ Go(r, "started")
  /\ UNCHANGED <<session, status, kind, chats, Others>>

(* MUTANT of RefuseStart: the chat is not ended.                           *)
RefuseStartSilently(r) ==
  /\ step[r] = "begun"
  /\ Go(r, "done")
  /\ UNCHANGED <<rows, chats, Started, Others>>

(* Not found, not writable, an empty question: _start_turn ends the chat.  *)
RefuseStart(r) ==
  /\ step[r] = "begun"
  /\ Go(r, "closing")
  /\ UNCHANGED <<rows, chats, Started, Others>>

Bind(r) ==
  /\ step[r] = "started"
  /\ bound' = answer[r]
  /\ Go(r, "greeting")
  /\ UNCHANGED <<rows, occupied, stop, Started, Others>>

(* The first event is sent outside of the generator's try: a client that   *)
(* leaves there, or before, leaves the chat active and the answer as it is.*)
Vanish(r) ==
  /\ step[r] = "greeting"
  /\ Go(r, "left")
  /\ UNCHANGED <<rows, chats, Started, Others>>

Greet(r) ==
  /\ step[r] = "greeting"
  /\ Go(r, "working")
  /\ UNCHANGED <<rows, chats, Started, Others>>
-----------------------------------------------------------------------------
(* _finish_assistant does not look at the status it overwrites; when it    *)
(* refuses, the request goes on at step refusal.                           *)
FinishAssistant(r, s, after, refusal) ==
  IF Writable
  THEN /\ status' = [status EXCEPT ![answer[r]] = s]
       /\ errors' = IF s = "COMPLETE" THEN errors \ {answer[r]}
                                      ELSE errors \union {answer[r]}
       /\ Go(r, after)
       /\ UNCHANGED session
  ELSE Go(r, refusal) /\ UNCHANGED rows

(* fail_retry: an answer that was complete is not touched.                 *)
FailRetry(r) ==
  /\ errors' = IF original[r] = "COMPLETE" \/ session # "open" THEN errors
               ELSE errors \union {answer[r]}
  /\ status' = IF original[r] = "COMPLETE" \/ session # "open" THEN status
               ELSE [status EXCEPT ![answer[r]] = original[r]]
  /\ Go(r, "closing")
  /\ UNCHANGED session

StopSeen(r) == stop /\ bound = answer[r]

(* Between retrieval and pieces of the answer, the flag is looked at.      *)
SeeStop(r) ==
  /\ step[r] = "working" /\ kind[r] # "sync" /\ StopSeen(r)
  /\ \/ /\ kind[r] = "stream"
        /\ FinishAssistant(r, "CANCELLED", "closing", "failing")
     \/ kind[r] = "retry" /\ FailRetry(r)
  /\ UNCHANGED <<chats, Started, Others>>

(* The last piece came, and no stop was seen after it.                     *)
Produce(r) ==
  /\ step[r] = "working" /\ (kind[r] = "sync" \/ ~StopSeen(r))
  /\ Go(r, "answered")
  /\ UNCHANGED <<rows, chats, Started, Others>>

(* Retrieval, the model or record_retrieval_audit raised.                  *)
Raise(r) ==
  /\ step[r] = "working"
  /\ Go(r, "failing")
  /\ UNCHANGED <<rows, chats, Started, Others>>

Complete(r) ==
  /\ step[r] = "answered"
  /\ FinishAssistant(r, "COMPLETE", IF kind[r] = "sync" THEN "closing" ELSE "telling",
                     "failing")
  /\ UNCHANGED <<chats, Started, Others>>

Fail(r) ==
  /\ step[r] = "failing"
  /\ \/ kind[r] # "retry" /\ FinishAssistant(r, "FAILED", "closing", "dropping")
     \/ kind[r] = "retry" /\ FailRetry(r)
  /\ UNCHANGED <<chats, Started, Others>>

(* The client leaves while an event is sent or awaited.                    *)
Disconnect(r) ==
  /\ step[r] \in {"working", "telling"} /\ kind[r] # "sync"
  /\ \/ /\ kind[r] = "stream"
        /\ FinishAssistant(r, "CANCELLED", "closing", "dropping")
     \/ kind[r] = "retry" /\ Go(r, "closing") /\ UNCHANGED rows
  /\ UNCHANGED <<chats, Started, Others>>

(* Sources and "done" are sent.                                            *)
Deliver(r) ==
  /\ step[r] = "telling"
  /\ Go(r, "closing")
  /\ UNCHANGED <<rows, chats, Started, Others>>

(* A request that is over takes its variables with it.                     *)
EndChat(r) ==
  /\ Free
  /\ \/ /\ step[r] = "closing"
        /\ Go(r, "done")
        /\ kind' = [kind EXCEPT ![r] = "sync"]
        /\ answer' = [answer EXCEPT ![r] = None]
        /\ original' = [original EXCEPT ![r] = "FAILED"]
     \/ /\ step[r] = "dropping"
        /\ Go(r, "refused")
        /\ UNCHANGED Started
  /\ UNCHANGED <<rows, Others>>
-----------------------------------------------------------------------------
(* POST .../cancel: the row is checked first, then the table is told.      *)
CheckStop(a) ==
  /\ status[a] = "STREAMING" /\ a \notin asked
  /\ asked' = asked \union {a}
  /\ UNCHANGED <<rows, chats, step, Started, rebuilding, deleting, restarts>>

(* MUTANT of RequestStop: the session alone is compared.                   *)
RequestStopOfSession(a) ==
  /\ a \in asked /\ occupied /\ bound # None
  /\ stop' = TRUE
  /\ UNCHANGED <<rows, occupied, bound, step, Started, Others>>

RequestStop(a) ==
  /\ a \in asked /\ occupied /\ bound = a
  /\ stop' = TRUE
  /\ UNCHANGED <<rows, occupied, bound, step, Started, Others>>

(* DELETE /sessions/{id}: the table is asked first, then rows are deleted. *)
CheckIdle ==
  /\ session = "open" /\ ~occupied /\ ~deleting
  /\ deleting' = TRUE
  /\ UNCHANGED <<rows, chats, step, Started, rebuilding, asked, restarts>>

DeleteSession ==
  /\ deleting /\ Writable
  /\ session' = "deleted"
  /\ status' = [a \in Answers |-> IF status[a] = "none" THEN "none" ELSE "deleted"]
  /\ errors' = {}
  /\ deleting' = FALSE
  /\ UNCHANGED <<chats, step, Started, rebuilding, asked, restarts>>

(* A rebuild may be submitted while an answer is generated.                *)
Rebuild ==
  /\ rebuilding' = ~rebuilding
  /\ UNCHANGED <<rows, chats, step, Started, asked, deleting, restarts>>

(* MUTANT of Restart: the next process does not look for answers left.     *)
RestartWithoutRecovery ==
  /\ restarts < MaxRestarts
  /\ restarts' = restarts + 1
  /\ Free
  /\ step' = [r \in Requests |-> IF step[r] = "new" THEN "new" ELSE "done"]
  /\ kind' = [r \in Requests |-> "sync"]
  /\ answer' = [r \in Requests |-> None]
  /\ original' = [r \in Requests |-> "FAILED"]
  /\ asked' = {} /\ deleting' = FALSE
  /\ UNCHANGED <<rows, rebuilding>>

(* The process ends at any point; recover_incomplete_messages comes before *)
(* the first request of the next one.                                      *)
Restart ==
  /\ restarts < MaxRestarts
  /\ restarts' = restarts + 1
  /\ Free
  /\ status' = [a \in Answers |-> IF status[a] = "STREAMING" THEN "FAILED" ELSE status[a]]
  /\ errors' = errors \union {a \in Answers : status[a] = "STREAMING"}
  /\ step' = [r \in Requests |-> IF step[r] = "new" THEN "new" ELSE "done"]
  /\ kind' = [r \in Requests |-> "sync"]
  /\ answer' = [r \in Requests |-> None]
  /\ original' = [r \in Requests |-> "FAILED"]
  /\ asked' = {} /\ deleting' = FALSE
  /\ UNCHANGED <<session, rebuilding>>
-----------------------------------------------------------------------------
(* What a request does by itself once it has begun.                        *)
GoesOn(r) == \/ StartTurn(r) \/ PrepareRetry(r) \/ RefuseStart(r)
             \/ BeginChatLate(r) \/ Bind(r) \/ Greet(r)
             \/ SeeStop(r) \/ Produce(r) \/ Raise(r) \/ Complete(r) \/ Fail(r)
             \/ Deliver(r) \/ EndChat(r)

Next == \/ \E r \in Requests : \/ BeginChat(r) \/ StartSession(r) \/ GoesOn(r)
                               \/ Vanish(r) \/ Disconnect(r)
        \/ \E a \in Answers : CheckStop(a) \/ RequestStop(a)
        \/ CheckIdle \/ DeleteSession \/ Rebuild \/ Restart

Spec == Init /\ [][Next]_vars

(* Threads go on and calls of models have a time-out; nobody has to leave. *)
FairSpec == Spec /\ \A r \in Requests : WF_vars(GoesOn(r))
-----------------------------------------------------------------------------
(* A session generates one answer at a time: a request between begin_chat  *)
(* and end_chat is alone there, and the entry it looks at is its own, also *)
(* after a request was refused late or a client left early.                *)
Owns(r) == step[r] \in Holding \union {"left"}

OneAnswerAtATime ==
  /\ \A q, r \in Requests : Owns(q) /\ Owns(r) => q = r
  /\ \A r \in Requests : Owns(r) => occupied
  /\ \A r \in Requests : step[r] \in Generating \ {"started"} /\ kind[r] # "sync"
       => bound = answer[r]

(* A stop request never ends another answer of the session than the one it *)
(* was checked for (bind_chat_message, request_chat_cancel).               *)
StopIsExact == stop => bound \in asked

(* STREAMING means that the answer is being generated, except for those    *)
(* that the code gives up: the client left before the first event, the     *)
(* session was taken before the late begin_chat, a rebuild refused the end.*)
Explains(r) == step[r] \in Generating \union {"unslotted", "dropping", "left", "refused"}

StreamingIsExplained ==
  \A a \in Answers : status[a] = "STREAMING" =>
    \E r \in Requests : answer[r] = a /\ kind[r] # "retry" /\ Explains(r)

(* A complete answer shows no error, whatever retries of it fail or stop.  *)
CompleteHasNoError == \A a \in Answers : status[a] = "COMPLETE" => a \notin errors

(* A complete answer stays complete, through failing retries, stop         *)
(* requests and restarts; only the stream that wrote it may still cancel   *)
(* it, when its client leaves before the last event.                       *)
BeingTold(a) == \E r \in Requests :
                  step[r] = "telling" /\ kind[r] = "stream" /\ answer[r] = a

CompleteIsKept ==
  [][\A a \in Answers : status[a] = "COMPLETE" /\ ~BeingTold(a)
       => status'[a] \in {"COMPLETE", "deleted"}]_vars

(* The session is free again some time, unless a client left too early.    *)
SessionIsFreed == occupied ~> (~occupied \/ \E r \in Requests : step[r] = "left")
-----------------------------------------------------------------------------
=============================================================================
