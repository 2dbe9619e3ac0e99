----------------------------- MODULE Generation ------------------------------
(***************************************************************************)
(* How an answer is generated from the evidence (app/services/             *)
(* rag_service.py, chat_model_service.py): the context is fitted into a    *)
(* budget of characters, the model is called at most MaxAttempts times,    *)
(* and only an answer whose references name sources of the prompt is       *)
(* accepted.  A streamed answer goes to the client while it is produced:   *)
(* the guard holds back what might be the beginning of a reference.        *)
(*                                                                         *)
(* Abstractions.  A source is the length of its text, the rest of its JSON *)
(* object has the length Overhead.  Text is a sequence of symbols: "[",    *)
(* "]", "K", "W", the digits and "x" for everything else.  A reference     *)
(* with more than one digit is one that no context holds.  The provider    *)
(* is external: each call may end in any error, a stream after any delta.  *)
(***************************************************************************)
EXTENDS Integers, FiniteSets, Sequences, SequencesExt

CONSTANTS Cases,         \* the evidence and settings of a question
          Overhead,      \* characters of a source besides its content
          Deltas,        \* pieces of text a model produces
          MaxDeltas,     \* bound: pieces of one answer
          MaxAttempts    \* CHAT_MAX_ATTEMPTS

Symbols == {"[", "]", "K", "W", "x", "1", "2", "3"}

ASSUME Settings ==
    /\ Cases \subseteq [kind : {"ask", "stream"}, local : Seq(Nat \ {0}),
                        web : Seq(Nat \ {0}), budget : Nat \ {0},
                        mode : {"knowledge_only", "knowledge_first", "hybrid"}]
    /\ Overhead \in Nat \ {0} /\ MaxAttempts \in 1 .. 2
    /\ Deltas \subseteq Seq(Symbols) /\ MaxDeltas \in Nat

VARIABLES case,       \* what was asked for
          pc,
          attempts,   \* calls of the model
          context,    \* contents of the sources, local and web
          refused,    \* the context the model found too long, or NoContext
          generated,  \* the text accepted so far
          pending,    \* what the guard holds
          cleared,    \* the guard has seen a valid reference
          shown,      \* what the client of a stream has received
          pieces,     \* deltas of this answer
          sources     \* sources of the response

generationVars == <<case, pc, attempts, context, refused, generated, pending, cleared,
                    shown, pieces, sources>>

NoContext == [local |-> <<>>, web |-> <<>>]

\* The variables have their types.
GenerationTypeOK ==
    /\ case \in Cases
    /\ pc \in {"prepare", "call", "running", "validate", "done", "failed"}
    /\ attempts \in 0 .. MaxAttempts /\ pieces \in 0 .. MaxDeltas
    /\ {context, refused} \subseteq [local : Seq(Nat \ {0}), web : Seq(Nat \ {0})]
    /\ {generated, pending, shown} \subseteq Seq(Symbols)
    /\ cleared \in BOOLEAN
    /\ sources \subseteq ({"K", "W"} \X (1 .. 3))

-----------------------------------------------------------------------------
(* The context.                                                            *)

\* The length of a JSON list of sources with these contents.
Length(contents) ==
    2 + FoldLeft(LAMBDA sum, n : sum + Overhead + n, 0, contents)
      + (IF contents = <<>> THEN 0 ELSE Len(contents) - 1)

\* Sources are taken in order while they fit; of the first that does not, the
\* longest prefix that fits (if any), and none after it.
BuildContext(contents, budget) ==
    LET Add(s, n) ==
          LET room == budget - Length(Append(s.taken, 0))
          IN IF s.full THEN s
             ELSE IF n <= room THEN [s EXCEPT !.taken = Append(@, n)]
             ELSE [taken |-> IF room >= 1 THEN Append(s.taken, room) ELSE s.taken,
                   full |-> TRUE]
    IN FoldLeft(Add, [taken |-> <<>>, full |-> FALSE], contents).taken

(* MUTANT of ContextForMode: a side that leaves something gives all its share. *)
ContextAllShares(budget) ==
    LET share == (budget * (IF case.mode = "knowledge_first" THEN 67 ELSE 50)) \div 100
        AtLeast1(n) == IF n < 1 THEN 1 ELSE n
        local == BuildContext(case.local, AtLeast1(share))
        web == BuildContext(case.web, AtLeast1(budget - share))
    IN IF case.local = <<>> \/ case.web = <<>>
       THEN [local |-> BuildContext(case.local, budget),
             web |-> BuildContext(case.web, budget)]
       ELSE IF web = case.web /\ local # case.local
       THEN [local |-> BuildContext(case.local, budget), web |-> web]
       ELSE [local |-> local, web |-> web]

\* With evidence of both kinds each gets a share of the budget, and what one
\* side leaves of its share goes to the other.
ContextForMode(budget) ==
    LET share == (budget * (IF case.mode = "knowledge_first" THEN 67 ELSE 50)) \div 100
        AtLeast1(n) == IF n < 1 THEN 1 ELSE n
        rest == budget - share
        local == BuildContext(case.local, AtLeast1(share))
        web == BuildContext(case.web, AtLeast1(rest))
        more == [local |-> rest - Length(web), web |-> share - Length(local)]
    IN IF case.local = <<>> \/ case.web = <<>>
       THEN [local |-> BuildContext(case.local, budget),
             web |-> BuildContext(case.web, budget)]
       ELSE IF web = case.web /\ local # case.local /\ more.local > 0
       THEN [local |-> BuildContext(case.local, AtLeast1(share + more.local)), web |-> web]
       ELSE IF local = case.local /\ web # case.web /\ more.web > 0
       THEN [local |-> local, web |-> BuildContext(case.web, AtLeast1(rest + more.web))]
       ELSE [local |-> local, web |-> web]

Combined(c) == c.local \o c.web

ReducedBudget == (case.budget * 6) \div 10

\* The sources of a context as the model is told to cite them.
Ids(c) == {<<"K", i>> : i \in DOMAIN c.local} \cup {<<"W", i>> : i \in DOMAIN c.web}

-----------------------------------------------------------------------------
(* References in a text.                                                   *)

Digit == [d \in {"1", "2", "3"} |-> CASE d = "1" -> 1 [] d = "2" -> 2 [] OTHER -> 3]

Positions(s, c) == {i \in DOMAIN s : s[i] = c}

\* The matches of \[([KW])([^\]]*)\], leftmost first and without overlap: to
\* each closing bracket the first opening one since the bracket before.
References(s) ==
    LET Opens(i, e) == /\ s[i] = "[" /\ i + 1 < e /\ s[i + 1] \in {"K", "W"}
                       /\ \A k \in i .. e - 1 : s[k] # "]"
    IN {r \in (DOMAIN s) \X Positions(s, "]") :
            Opens(r[1], r[2]) /\ \A j \in 1 .. r[1] - 1 : ~Opens(j, r[2])}

Names(s, r) == IF r[2] = r[1] + 3 /\ s[r[1] + 2] \in DOMAIN Digit
               THEN <<s[r[1] + 1], Digit[s[r[1] + 2]]>> ELSE <<"malformed">>

Cited(s) == {Names(s, r) : r \in References(s)}

LastOf(set) == IF set = {} THEN 0 ELSE CHOOSE i \in set : \A j \in set : j <= i

(* MUTANT of SafeCut: all that is pending. *)
CutNothing(s) == Len(s)

\* How much of the pending text may be shown: all of it, or what comes before
\* an opening bracket that is not closed yet.
SafeCut(s) ==
    LET opening == LastOf(Positions(s, "["))
        closing == LastOf(Positions(s, "]"))
    IN IF opening > closing THEN opening - 1 ELSE Len(s)

-----------------------------------------------------------------------------
(* One answer.                                                             *)

GenerationInit ==
    /\ case \in Cases
    /\ pc = "prepare" /\ attempts = 0
    /\ context = NoContext /\ refused = NoContext
    /\ generated = <<>> /\ pending = <<>> /\ cleared = FALSE
    /\ shown = <<>> /\ pieces = 0 /\ sources = {}

Fails == pc' = "failed" /\ UNCHANGED <<context, refused>>

\* Without a source that fits, the answer is that there is no information, and
\* the model is not called; without a chat configuration the request fails.
Prepare ==
    /\ pc = "prepare"
    /\ context' = ContextForMode(case.budget)
    /\ pc' \in IF Combined(context') = <<>> THEN {"done"} ELSE {"call", "failed"}
    /\ UNCHANGED <<case, attempts, refused, generated, pending, cleared, shown, pieces,
                   sources>>

Call ==
    /\ pc = "call"
    /\ attempts < MaxAttempts
    /\ attempts' = attempts + 1
    /\ pc' = "running"
    /\ generated' = <<>> /\ pending' = <<>> /\ cleared' = FALSE /\ pieces' = 0
    /\ UNCHANGED <<case, context, refused, shown, sources>>

\* A piece of the answer; ask sees them when all have come.
Receive ==
    /\ pc = "running" /\ case.kind = "ask" /\ pieces < MaxDeltas
    /\ \E d \in Deltas : generated' = generated \o d
    /\ pieces' = pieces + 1
    /\ UNCHANGED <<case, pc, attempts, context, refused, pending, cleared, shown, sources>>

Received ==
    /\ pc = "running" /\ case.kind = "ask" /\ pieces > 0
    /\ pc' = "validate"
    /\ UNCHANGED <<case, attempts, context, refused, generated, pending, cleared, shown,
                   pieces, sources>>

Emit(text) == generated' = generated \o text /\ shown' = shown \o text

\* _CitationStreamGuard.feed: a reference that names no source ends the stream
\* (it is not tried again); nothing is shown before a valid one.
Feed ==
    /\ pc = "running" /\ case.kind = "stream" /\ pieces < MaxDeltas
    /\ pieces' = pieces + 1
    /\ \E d \in Deltas :
          LET text == pending \o d IN
          IF ~(Cited(text) \subseteq Ids(context))
          THEN /\ pc' = "failed"
               /\ UNCHANGED <<generated, pending, cleared, shown>>
          ELSE /\ cleared' = (cleared \/ Cited(text) # {})
               /\ LET cut == IF cleared' THEN SafeCut(text) ELSE 0
                  IN /\ Emit(SubSeq(text, 1, cut))
                     /\ pending' = SubSeq(text, cut + 1, Len(text))
               /\ UNCHANGED pc
    /\ UNCHANGED <<case, attempts, context, refused, sources>>

\* _CitationStreamGuard.finish: an open bracket or no reference at all ends the
\* answer in an error, what is left is shown otherwise.
Finish ==
    /\ pc = "running" /\ case.kind = "stream"
    /\ IF LastOf(Positions(pending, "[")) > LastOf(Positions(pending, "]")) \/ ~cleared
       THEN pc' = "failed" /\ UNCHANGED <<generated, pending, shown>>
       ELSE pc' = "validate" /\ Emit(pending) /\ pending' = <<>>
    /\ UNCHANGED <<case, attempts, context, refused, cleared, pieces, sources>>

(* MUTANT of MayRetry: a stream is started again whatever it has shown. *)
MayRetryAnyway == attempts < MaxAttempts

\* A stream that has shown something is not started again.
MayRetry == attempts < MaxAttempts /\ (case.kind = "stream" => generated = <<>>)

\* The context to call again with: six tenths of the budget.
Shrink == context' = ContextForMode(ReducedBudget) /\ refused' = context

\* The prompt was too long for the model.
TooLong ==
    /\ pc = "running"
    /\ IF ~MayRetry THEN Fails
       ELSE /\ Shrink
            /\ pc' = IF Combined(context') = <<>> THEN "failed" ELSE "call"
    /\ UNCHANGED <<case, attempts, generated, pending, cleared, shown, pieces, sources>>

\* A timeout or a transient failure is tried again; authentication, an invalid
\* request and a malformed response are not.
Transient ==
    /\ pc = "running"
    /\ pc' = IF MayRetry THEN "call" ELSE "failed"
    /\ UNCHANGED <<case, attempts, context, refused, generated, pending, cleared, shown,
                   pieces, sources>>

Fatal ==
    /\ pc = "running"
    /\ Fails
    /\ UNCHANGED <<case, attempts, generated, pending, cleared, shown, pieces, sources>>

Acceptable(s) == Cited(s) # {} /\ Cited(s) \subseteq Ids(context)

\* _build_response: the references of the whole answer; ask calls the model
\* again for an answer without valid references, stream does not.
Respond ==
    /\ pc = "validate"
    /\ IF Acceptable(generated)
       THEN pc' = "done" /\ sources' = Cited(generated)
       ELSE /\ pc' = IF case.kind = "ask" /\ attempts < MaxAttempts
                     THEN "call" ELSE "failed"
            /\ UNCHANGED sources
    /\ UNCHANGED <<case, attempts, context, refused, generated, pending, cleared, shown,
                   pieces>>

GenerationNext == Prepare \/ Call \/ Receive \/ Received \/ Feed \/ Finish \/ TooLong
        \/ Transient \/ Fatal \/ Respond

GenerationSpec == GenerationInit /\ [][GenerationNext]_generationVars

-----------------------------------------------------------------------------
(* Properties.                                                             *)

\* What a client received piece by piece is the answer that is returned and
\* stored, once: also when calls of the model failed and were repeated.
ShownIsTheAnswer == case.kind = "stream" /\ pc = "done" => shown = generated

\* A reference the client of a stream has seen names a source of the prompt the
\* answer came from, however the model cut its text into pieces, and the client
\* sees nothing before the first one.  (Not a reference with a bracket inside:
\* of "[K[" and "1]" the guard lets "[K" go, and the whole answer is refused
\* afterwards.)  The sources of a response are those its answer cites, each was
\* in the last prompt, and a response without sources is one the model was not
\* asked for.
CitationsAreValid ==
    LET Nested(r) == \E i \in r[1] + 1 .. r[2] : shown[i] = "["
    IN /\ \A r \in References(shown) : ~Nested(r) => Names(shown, r) \in Ids(context)
       /\ shown # <<>> => cleared
       /\ pc = "done" =>
             /\ sources = Cited(generated)
             /\ \A id \in sources :
                   id[2] \in DOMAIN (IF id[1] = "K" THEN context.local ELSE context.web)
             /\ sources = {} => attempts = 0

\* The sources sent to the model are within the budget, shares and their
\* redistribution included, and after a refusal within six tenths of it; no
\* source is then longer than the refused prompt had it, and none is new.  (And
\* the variables have their types.)
ContextFits ==
    /\ GenerationTypeOK
    /\ pc = "running" =>
          /\ Combined(context) # <<>>
          /\ Length(Combined(context)) <=
                (IF refused = NoContext THEN case.budget ELSE ReducedBudget)
          /\ refused # NoContext =>
                \A side \in {"local", "web"} :
                    \A i \in DOMAIN context[side] :
                        /\ i \in DOMAIN refused[side]
                        /\ context[side][i] <= refused[side][i]

=============================================================================
