----------------------------- MODULE SharedMemory ------------------------------
(* Several runs of one agent on the sessions and users of one memory service. *)
(* The engine is a single event loop: between two awaits of the memory client *)
(* any other run may go on.  One action per memory request of a run, with the *)
(* LLM and the tools between them reduced to how many results a round had.    *)
EXTENDS MemoryClient, Sequences, FiniteSets, Integers

CONSTANTS
  Run, Session, User, Fact,
  None,           \* no fact
  SessionOf,      \* request.session_id
  UserOf,         \* request.user_id
  FactOf,         \* the fact a run's input states, or None
  LastN,          \* last_n of SessionMemory.load (50 in the code)
  MaxRounds,      \* the most responses of a run
  MaxResults      \* the most tool results of one round

ASSUME SharedAssumption ==
  /\ SessionOf \in [Run -> Session]
  /\ UserOf \in [Run -> User]
  /\ None \notin Fact
  /\ FactOf \in [Run -> Fact \cup {None}]
  /\ LastN \in Nat \ {0} /\ MaxRounds \in Nat /\ MaxResults \in Nat

VARIABLES
  stage,      \* the memory request a run makes next, or where it is otherwise
  rounds,     \* steps_taken
  pending,    \* results of the round still to be written to working memory
  window,     \* the session's messages the run loaded
  known,      \* ctx.user_facts
  answered,   \* ctx.final_answer is there and not empty
  sessions,   \* "session:{session_id}": turns, each with the run that wrote it
  facts,      \* "user:{user_id}": facts, each with the run that wrote it
  working,    \* "working:{run_id}": the run behind each tool record
  factsRead   \* history variable: facts the store held when the run loaded
              \* them; 0 if it could not

runVars == <<stage, rounds, pending, window, known, answered, factsRead>>
storeVars == <<sessions, facts, working>>
vars == <<runVars, storeVars>>

Role == {"user", "assistant"}
Turn == [role : Role, run : Run]
Stored == [fact : Fact, run : Run]

Stage == {"load_session", "load_facts", "llm", "observe", "write_turn", "write_fact",
          "answer", "audit", "cleanup", "returned", "raised"}
Ended == {"returned", "raised"}

Init ==
  /\ stage = [r \in Run |-> "load_session"]
  /\ rounds = [r \in Run |-> 0] /\ pending = [r \in Run |-> 0]
  /\ window = [r \in Run |-> <<>>] /\ known = [r \in Run |-> {}]
  /\ answered = [r \in Run |-> FALSE]
  /\ sessions = [s \in Session |-> <<>>] /\ facts = [u \in User |-> <<>>]
  /\ working = [r \in Run |-> <<>>]
  /\ factsRead = [r \in Run |-> 0]

Goto(r, next) == stage' = [stage EXCEPT ![r] = next]

\* A write of the service: applied or not, whatever the caller is told.
AppendIf(reply, log, key, record) ==
  IF Applied(reply) THEN [log EXCEPT ![key] = Append(@, record)] ELSE log

\* Mutants of Window: the whole session; the oldest messages instead of the newest.
WindowWhole(log) == log

WindowOldest(log) == SubSeq(log, 1, IF Len(log) < LastN THEN Len(log) ELSE LastN)

\* GET .../window?last_n=N
Window(log) == SubSeq(log, IF Len(log) <= LastN THEN 1 ELSE Len(log) - LastN + 1, Len(log))

------------------------------------------------------------------------------
\* Mutant of AfterLoad: an unreachable service is asked again from the start.
AfterLoadRetries(r, reply, next) ==
  Goto(r, IF reply = "ok" THEN next
          ELSE IF Unreachable(reply) THEN "load_session" ELSE "answer")

\* LOAD_MEMORY: an unreachable service is no memory, any other failure fails
\* the run, which has no answer then.
AfterLoad(r, reply, next) ==
  Goto(r, IF reply = "ok" THEN next ELSE IF Unreachable(reply) THEN "llm" ELSE "answer")

LoadSession(r) ==
  /\ stage[r] = "load_session"
  /\ \E reply \in Replies :
       /\ window' = IF reply = "ok" THEN [window EXCEPT ![r] = Window(sessions[SessionOf[r]])]
                    ELSE window
       /\ AfterLoad(r, reply, "load_facts")
  /\ UNCHANGED <<rounds, pending, known, answered, factsRead, storeVars>>

LoadFacts(r) ==
  /\ stage[r] = "load_facts"
  /\ \E reply \in Replies :
       /\ IF reply = "ok"
          THEN LET log == facts[UserOf[r]] IN
               /\ known' = [known EXCEPT ![r] = {log[i].fact : i \in 1..Len(log)}]
               /\ factsRead' = [factsRead EXCEPT ![r] = Len(log)]
          ELSE UNCHANGED <<known, factsRead>>
       /\ AfterLoad(r, reply, "llm")
  /\ UNCHANGED <<rounds, pending, window, answered, storeVars>>

\* CALL_LLM to EXECUTE_TOOL: a round of tools, or the end of the loop with an
\* answer, with an empty one, or with a failure or an escalation.
UseTools(r) ==
  /\ stage[r] = "llm" /\ rounds[r] < MaxRounds
  /\ rounds' = [rounds EXCEPT ![r] = @ + 1]
  /\ \E n \in 0..MaxResults : pending' = [pending EXCEPT ![r] = n]
  /\ Goto(r, "observe")
  /\ UNCHANGED <<window, known, answered, factsRead, storeVars>>

LeaveLoop(r) ==
  /\ stage[r] = "llm"
  /\ \E text \in BOOLEAN : answered' = [answered EXCEPT ![r] = text]
  /\ Goto(r, "answer")
  /\ UNCHANGED <<rounds, pending, window, known, factsRead, storeVars>>

------------------------------------------------------------------------------
\* Mutant of WorkingNs: the scratchpad is the session's.
WorkingNsShared(r) == CHOOSE q \in Run : SessionOf[q] = SessionOf[r]

\* working_memory._ns
WorkingNs(r) == r

\* OBSERVE_RESULT: one append per result, tolerated failures skipped.
ObserveResult(r) ==
  /\ stage[r] = "observe" /\ pending[r] > 0
  /\ pending' = [pending EXCEPT ![r] = @ - 1]
  /\ \E reply \in Replies :
       /\ working' = AppendIf(reply, working, WorkingNs(r), r)
       /\ IF OtherError(reply) THEN Goto(r, "answer") ELSE UNCHANGED stage
  /\ UNCHANGED <<rounds, window, known, answered, factsRead, sessions, facts>>

\* Mutant of FinishObserve: the user's turn is written in every round.
FinishObserveWrites(r) ==
  /\ stage[r] = "observe" /\ pending[r] = 0
  /\ Goto(r, "write_turn")
  /\ UNCHANGED <<rounds, pending, window, known, answered, factsRead, storeVars>>

\* WRITE_MEMORY writes at step 1 only.
FinishObserve(r) ==
  /\ stage[r] = "observe" /\ pending[r] = 0
  /\ Goto(r, IF rounds[r] = 1 THEN "write_turn" ELSE "llm")
  /\ UNCHANGED <<rounds, pending, window, known, answered, factsRead, storeVars>>

\* Mutant of NewFact: what was loaded is not looked at.
NewFactAlways(r) == FactOf[r] # None

\* extract_and_store appends what was not loaded, not what is not stored.
NewFact(r) == FactOf[r] # None /\ FactOf[r] \notin known[r]

AfterWrite(r, reply, next) ==
  Goto(r, IF reply = "ok" THEN next ELSE IF Tolerated(reply) THEN "llm" ELSE "answer")

WriteTurn(r) ==
  /\ stage[r] = "write_turn"
  /\ \E reply \in Replies :
       /\ sessions' = AppendIf(reply, sessions, SessionOf[r], [role |-> "user", run |-> r])
       /\ AfterWrite(r, reply, IF NewFact(r) THEN "write_fact" ELSE "llm")
  /\ UNCHANGED <<rounds, pending, window, known, answered, factsRead, facts, working>>

WriteFact(r) ==
  /\ stage[r] = "write_fact"
  /\ \E reply \in Replies :
       /\ facts' = AppendIf(reply, facts, UserOf[r], [fact |-> FactOf[r], run |-> r])
       /\ AfterWrite(r, reply, "llm")
  /\ UNCHANGED <<rounds, pending, window, known, answered, factsRead, sessions, working>>

------------------------------------------------------------------------------
\* After the loop: run() names the two tolerated exceptions and no other.
AfterPost(r, reply, next) == Goto(r, IF OtherError(reply) THEN "raised" ELSE next)

\* An escalation, a failure and an empty answer store none.
StoreAnswer(r) ==
  /\ stage[r] = "answer"
  /\ IF answered[r]
     THEN \E reply \in Replies :
            /\ sessions' = AppendIf(reply, sessions, SessionOf[r],
                                    [role |-> "assistant", run |-> r])
            /\ AfterPost(r, reply, "audit")
     ELSE Goto(r, "audit") /\ UNCHANGED sessions
  /\ UNCHANGED <<rounds, pending, window, known, answered, factsRead, facts, working>>

\* The record goes to "audit:{run_id}", which no run ever reads.
WriteAudit(r) ==
  /\ stage[r] = "audit"
  /\ \E reply \in Replies : AfterPost(r, reply, "cleanup")
  /\ UNCHANGED <<rounds, pending, window, known, answered, factsRead, storeVars>>

DeleteWorking(r) ==
  /\ stage[r] = "cleanup"
  /\ \E reply \in Replies :
       /\ working' = IF Applied(reply) THEN [working EXCEPT ![WorkingNs(r)] = <<>>] ELSE working
       /\ AfterPost(r, reply, "returned")
  /\ UNCHANGED <<rounds, pending, window, known, answered, factsRead, sessions, facts>>

Load(r) == LoadSession(r) \/ LoadFacts(r)
Think(r) == UseTools(r) \/ LeaveLoop(r)
Record(r) == ObserveResult(r) \/ FinishObserve(r) \/ WriteTurn(r) \/ WriteFact(r)
PostRun(r) == StoreAnswer(r) \/ WriteAudit(r) \/ DeleteWorking(r)

Step(r) == Load(r) \/ Think(r) \/ Record(r) \/ PostRun(r)

AllEnded == (\A r \in Run : stage[r] \in Ended) /\ UNCHANGED vars

Next == (\E r \in Run : Step(r)) \/ AllEnded

\* Every await of a run is bounded, and the event loop is fair to each run.
Spec == Init /\ [][Next]_vars /\ \A r \in Run : WF_vars(Step(r))

------------------------------------------------------------------------------
RunTypeOK ==
  /\ stage \in [Run -> Stage]
  /\ rounds \in [Run -> 0..MaxRounds] /\ pending \in [Run -> 0..MaxResults]
  /\ window \in [Run -> Seq(Turn)] /\ known \in [Run -> SUBSET Fact]
  /\ answered \in [Run -> BOOLEAN]
  /\ factsRead \in [Run -> Nat]

StoreTypeOK ==
  /\ sessions \in [Session -> Seq(Turn)] /\ facts \in [User -> Seq(Stored)]
  /\ working \in [Run -> Seq(Run)]

\* Every variable has the values the code can give it; the window fits last_n.
TypeOK == RunTypeOK /\ StoreTypeOK /\ \A r \in Run : Len(window[r]) <= LastN

Has(log, i, role, r) == log[i] = [role |-> role, run |-> r]

\* However runs of a session interleave and whatever answers get lost, a run
\* adds its question at most once and its answer at most once, the question
\* first (_write_memory at step 1, the end of AgentEngine.run).
TurnsOnceInOrder ==
  \A s \in Session, r \in Run :
    LET log == sessions[s] IN
    /\ \A i, j \in 1..Len(log) : log[i] = log[j] /\ log[i].run = r => i = j
    /\ \A i, j \in 1..Len(log) : Has(log, i, "user", r) /\ Has(log, j, "assistant", r) => i < j

\* A fact is stored again only by a run that did not see the first copy, since
\* it read the facts before that was written or could not read them; a run that
\* read all of them repeats none (extract_and_store).
RepeatsOnlyUnseen ==
  \A u \in User : \A i, j \in 1..Len(facts[u]) :
    i < j /\ facts[u][i].fact = facts[u][j].fact =>
      /\ facts[u][i].run # facts[u][j].run
      /\ factsRead[facts[u][j].run] < i

\* A conversation continues: what a run loads of its session has every turn of
\* the runs that were over by then, but for turns that last_n newer ones push
\* out (SessionMemory.load).
ContinuesConversation ==
  [][\A r \in Run : stage[r] = "load_session" /\ stage'[r] = "load_facts" =>
       LET log == sessions[SessionOf[r]] IN
       \A i \in 1..Len(log) :
         stage[log[i].run] \in Ended =>
           \/ Len(log) - i >= LastN
           \/ \E k \in 1..Len(window'[r]) : window'[r][k] = log[i]]_vars

\* A scratchpad is its run's alone, whichever other runs share session and
\* user: nobody else writes to it, and it shrinks only when its run is over.
ScratchpadPrivate ==
  [][\A r \in Run :
       /\ working'[r] # working[r] => stage[r] \in {"observe", "cleanup"}
       /\ Len(working'[r]) > Len(working[r]) => pending'[r] = pending[r] - 1
       /\ Len(working'[r]) < Len(working[r]) => stage[r] = "cleanup"]_vars

\* Every run comes to its end beside the others.
EveryRunEnds == \A r \in Run : <>(stage[r] \in Ended)
================================================================================
