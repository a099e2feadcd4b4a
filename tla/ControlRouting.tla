--------------------------- MODULE ControlRouting ---------------------------
(***************************************************************************)
(* Answers to a pending decision: RouteDecisionResponse, the routed command *)
(* and its shared result, and the commit on the server that owns the run.  *)
(* Any server takes an answer; the owner executes it at most once per      *)
(* control id at a time; replies and commands travel over Redis pub/sub,   *)
(* which loses them; results are kept under the control id, and expire.    *)
(*                                                                         *)
(* A call to Redis or PostgreSQL and a section under Manager.mu is a step. *)
(* A process is a call of the entry point, or a server's worker executing  *)
(* the routed command of a control.                                        *)
(*                                                                         *)
(* Abstractions.  One parked run with one decision.  The payload hash is   *)
(* the payload: equal hashes are equal answers.  A worker is per control   *)
(* id, as admitCommand allows one; a full worker pool refuses a command.   *)
(* The generation of a run, new with every reservation, is the token the   *)
(* reservation was made under.  No command reconciler is installed outside *)
(* the tests.  How a takeover is elected is the subject of SessionReaper.  *)
(***************************************************************************)
EXTENDS Integers

CONSTANTS
  Attempts, Answers, NoAnswer, Closed,
  Controls,     \* control ids; a result is kept under the id
  ControlOf,    \* the control id an answer is given under: two answers of one id differ
               \* in their payload
  Servers,      \* processes of the deployment
  Home,         \* the server that parked the run
  NoServer,     \* no live reservation
  MaxRetries,   \* bound on how often one call publishes its command again
  MaxErrors,    \* bound on failing calls, lost leases and crashes
  MaxToken      \* bound on fencing tokens: takeovers of the run

ASSUME RoutingAssumption ==
  /\ Home \in Servers /\ NoServer \notin Servers
  /\ Attempts \cap (Servers \X Controls) = {}   \* a call is not a worker of a server
  /\ ControlOf \in [Answers -> Controls] /\ NoAnswer \notin Answers
  /\ MaxRetries \in Nat /\ MaxErrors \in Nat /\ MaxToken \in Nat \ {0}

VARIABLES
  ask, told, repeats,   \* the callers, as in the contract
  row,         \* the decision's row: its status and the answer in it
  run,         \* the run's row: waiting_decision, running or ended
  token,       \* fencing token of the run and of its decision
  ref,         \* the live reservation: owner and token
  held,        \* token under which each server's run control holds the run, 0: none
  results,     \* shared command results, by control id
  pc, cmd,     \* step of each process and the command it works on
  reply,       \* result of the command a process executed
  executing,   \* commandExecutions: control ids being executed, by server
  inflight,    \* inflightCommandTargets: servers in the decision's handler
  net,         \* published commands and results; one that is never delivered is lost
  continuing,  \* tokens under which a continuation of the run was started
  errors       \* calls that failed, leases lost and crashes so far

callers == <<ask, told, repeats>>
durable == <<row, run, token>>
owner   == <<ref, held>>
local   == <<executing, inflight>>
routingVars ==
  <<callers, durable, owner, results, pc, cmd, reply, local, net, continuing, errors>>

Workers == Servers \X Controls
Procs   == Attempts \cup Workers
NoRef   == [owner |-> NoServer, token |-> 0]
NoCmd   == [at |-> NoServer, answer |-> NoAnswer, token |-> 0, peer |-> NoServer, tries |-> 0]

Answered == row.status = "answered"
Pending  == row.status = "pending"
Fails    == errors < MaxErrors /\ errors' = errors + 1

\* commandResultErrorFor: a result says applied unless its payload is another one.
Verdict(answer, stored) == IF answer = stored THEN "applied" ELSE "conflict"

Goto(x, to) == pc' = [pc EXCEPT ![x] = to]

Told(a, word) ==
  /\ told' = [told EXCEPT ![a] = word]
  /\ cmd' = [cmd EXCEPT ![a] = NoCmd]
  /\ Goto(a, "told")
  /\ UNCHANGED <<ask, repeats>>

Replied(x, word, to) == reply' = [reply EXCEPT ![x] = word] /\ Goto(x, to)

RoutingInit ==
  /\ ask = [a \in Attempts |-> NoAnswer]
  /\ told = [a \in Attempts |-> "nothing"]
  /\ repeats = {}
  /\ row = [status |-> "pending", answer |-> NoAnswer] /\ run = "waiting" /\ token = 1
  /\ ref = [owner |-> Home, token |-> 1]
  /\ held = [s \in Servers |-> IF s = Home THEN 1 ELSE 0]
  /\ results = [c \in Controls |-> NoAnswer]
  /\ pc = [x \in Procs |-> "idle"]
  /\ cmd = [x \in Procs |-> NoCmd]
  /\ reply = [x \in Procs |-> "failed"]
  /\ executing = {} /\ inflight = {} /\ net = {} /\ continuing = {}
  /\ errors = 0
-----------------------------------------------------------------------------
(* RouteDecisionResponse                                                   *)

Answer(x)  == cmd[x].answer
Control(x) == ControlOf[cmd[x].answer]
At(x)      == cmd[x].at

Submit(a, s, answer) ==
  /\ pc[a] = "idle"
  /\ ask' = [ask EXCEPT ![a] = answer]
  /\ repeats' = IF \E b \in Attempts : told[b] = "applied" /\ ask[b] = answer
                THEN repeats \cup {a} ELSE repeats
  /\ cmd' = [cmd EXCEPT ![a] = [NoCmd EXCEPT !.at = s, !.answer = answer]]
  /\ Goto(a, "lookup")
  /\ UNCHANGED <<told, durable, owner, results, reply, local, net, continuing, errors>>

\* The control id is looked up first: a result answers for an ended run, too.
Lookup(a) ==
  /\ pc[a] = "lookup"
  /\ IF results[Control(a)] = NoAnswer
     THEN Goto(a, "resolve") /\ UNCHANGED <<callers, cmd>>
     ELSE Told(a, Verdict(Answer(a), results[Control(a)]))
  /\ UNCHANGED <<durable, owner, results, reply, local, net, continuing, errors>>

\* An attempt whose row is already answered is refused, whoever answered it.
ResolveDecision_RefusesAnswered(a) ==
  /\ pc[a] = "resolve"
  /\ \/ /\ ~Pending
        /\ Told(a, "refused")
     \/ /\ Pending
        /\ cmd' = [cmd EXCEPT ![a].token = token]
        /\ Goto(a, "run") /\ UNCHANGED callers
  /\ UNCHANGED <<durable, owner, results, reply, local, net, continuing, errors>>

\* ResolveRuntimeDecision: an answered row knows the control that answered it.
ResolveDecision(a) ==
  /\ pc[a] = "resolve"
  /\ \/ /\ Answered /\ ControlOf[row.answer] = Control(a)
        /\ Told(a, Verdict(Answer(a), row.answer))
     \/ /\ ~Pending /\ ~(Answered /\ ControlOf[row.answer] = Control(a))
        /\ Told(a, "refused")
     \/ /\ Pending
        /\ cmd' = [cmd EXCEPT ![a].token = token]
        /\ Goto(a, "run") /\ UNCHANGED callers
  /\ UNCHANGED <<durable, owner, results, reply, local, net, continuing, errors>>

\* runs.Get: the run must still wait under the token of its decision.
GetRun(a) ==
  /\ pc[a] = "run"
  /\ \/ cmd[a].token # token /\ Told(a, "failed")
     \/ cmd[a].token = token /\ run # "waiting" /\ Told(a, "refused")
     \/ cmd[a].token = token /\ run = "waiting" /\ Goto(a, "ref") /\ UNCHANGED <<callers, cmd>>
  /\ UNCHANGED <<durable, owner, results, reply, local, net, continuing, errors>>

\* The command as it is published to the owner the caller found.
Request(c) == [to |-> c.peer, type |-> "command", answer |-> c.answer, token |-> c.token,
               from |-> c.at]

\* LoadRunRef: the owner executes the command itself, another server publishes it.
LoadRef(a) ==
  /\ pc[a] = "ref"
  /\ \/ ref = NoRef /\ Told(a, "failed") /\ UNCHANGED net
     \/ /\ ref.owner = At(a)
        /\ cmd' = [cmd EXCEPT ![a].token = ref.token]
        /\ Goto(a, "begin") /\ UNCHANGED <<callers, net>>
     \/ /\ ref.owner \notin {At(a), NoServer}
        /\ cmd' = [cmd EXCEPT ![a].token = ref.token, ![a].peer = ref.owner]
        /\ net' = net \cup {Request(cmd'[a])}
        /\ Goto(a, "wait") /\ UNCHANGED callers
  /\ UNCHANGED <<durable, owner, results, reply, local, continuing, errors>>

\* A call to Redis or PostgreSQL fails before the command exists.
LookupFails(a) ==
  /\ pc[a] \in {"lookup", "resolve", "run", "ref"}
  /\ Fails
  /\ Told(a, "failed")
  /\ UNCHANGED <<durable, owner, results, reply, local, net, continuing>>

\* waitCommandResult polls the shared result ...
PollResult(a) ==
  /\ pc[a] = "wait" /\ results[Control(a)] # NoAnswer
  /\ Told(a, Verdict(Answer(a), results[Control(a)]))
  /\ UNCHANGED <<durable, owner, results, reply, local, net, continuing, errors>>

\* ... publishes the command again to the owner it knows ...
Republish(a) ==
  /\ pc[a] = "wait" /\ cmd[a].tries < MaxRetries
  /\ net' = net \cup {Request(cmd[a])}
  /\ cmd' = [cmd EXCEPT ![a].tries = @ + 1]
  /\ UNCHANGED <<callers, durable, owner, results, pc, reply, local, continuing, errors>>

\* ... and gives up.
WaitTimesOut(a) ==
  /\ pc[a] = "wait"
  /\ Told(a, "failed")
  /\ UNCHANGED <<durable, owner, results, reply, local, net, continuing, errors>>
-----------------------------------------------------------------------------
(* The subscriber of a server                                              *)

\* admitCommand: one command of a control at a time, a duplicate is dropped.
\* With every worker busy the command is refused without being executed.
DeliverCommand(m) ==
  /\ m.type = "command" /\ m \in net
  /\ net' = net \ {m}
  /\ LET w == <<m.to, ControlOf[m.answer]>> IN
     IF pc[w] = "idle"
     THEN /\ cmd' = [cmd EXCEPT ![w] = [at |-> m.to, answer |-> m.answer,
                                        token |-> m.token, peer |-> m.from, tries |-> 0]]
          /\ \/ Goto(w, "begin") /\ UNCHANGED errors
             \/ Fails /\ Goto(w, "reply")
     ELSE UNCHANGED <<pc, cmd, errors>>
  /\ UNCHANGED <<callers, durable, owner, results, reply, local, continuing>>

\* completePendingCommand: every waiter of the control on this server gets the result.
DeliverResult(m) ==
  /\ m.type = "result" /\ m \in net
  /\ net' = net \ {m}
  /\ LET waiters == {a \in Attempts : pc[a] = "wait" /\ At(a) = m.to
                                      /\ Control(a) = ControlOf[m.answer]} IN
     /\ told' = [a \in Attempts |->
                  IF a \notin waiters THEN told[a]
                  ELSE IF Answer(a) # m.answer THEN "conflict" ELSE m.word]
     /\ cmd' = [x \in Procs |-> IF x \in waiters THEN NoCmd ELSE cmd[x]]
     /\ pc' = [x \in Procs |-> IF x \in waiters THEN "told" ELSE pc[x]]
  /\ UNCHANGED <<ask, repeats, durable, owner, results, reply, local, continuing, errors>>

-----------------------------------------------------------------------------
(* executeRoutedCommand                                                    *)

\* A second execution of the command is not held back.
BeginExecution_Ungated(x) ==
  /\ pc[x] = "begin"
  /\ Goto(x, "load") /\ executing' = executing \cup {<<At(x), Control(x)>>}
  /\ UNCHANGED <<callers, durable, owner, results, cmd, reply, inflight, net, continuing, errors>>

\* The first one in executes, a later one waits for it.
BeginExecution(x) ==
  /\ pc[x] = "begin"
  /\ IF <<At(x), Control(x)>> \in executing
     THEN Goto(x, "follow") /\ UNCHANGED executing
     ELSE Goto(x, "load") /\ executing' = executing \cup {<<At(x), Control(x)>>}
  /\ UNCHANGED <<callers, durable, owner, results, cmd, reply, inflight, net, continuing, errors>>

\* A follower is released by its leader and takes the result that was stored ...
Followed(x) ==
  /\ pc[x] = "followed"
  /\ IF results[Control(x)] = NoAnswer
     THEN Replied(x, "failed", "reply")
     ELSE Replied(x, Verdict(Answer(x), results[Control(x)]), "reply")
  /\ UNCHANGED <<callers, durable, owner, results, cmd, local, net, continuing, errors>>

\* ... unless its caller goes away first.
FollowerGivesUp(a) ==
  /\ a \in Attempts /\ pc[a] = "follow"
  /\ Fails
  /\ Told(a, "failed")
  /\ UNCHANGED <<durable, owner, results, reply, local, net, continuing>>

LoadStored(x) ==
  /\ pc[x] = "load"
  /\ IF results[Control(x)] = NoAnswer
     THEN Goto(x, "apply") /\ UNCHANGED reply
     ELSE Replied(x, Verdict(Answer(x), results[Control(x)]), "finish")
  /\ UNCHANGED <<callers, durable, owner, results, cmd, local, net, continuing, errors>>

Owns(x) == held[At(x)] = cmd[x].token /\ ref = [owner |-> At(x), token |-> cmd[x].token]

\* applyRoutedCommand: this server must own the run under the command's token,
\* and no other answer may be in the handler.
Apply(x) ==
  /\ pc[x] = "apply"
  /\ IF Owns(x) /\ At(x) \notin inflight
     THEN inflight' = inflight \cup {At(x)} /\ Goto(x, "commit") /\ UNCHANGED reply
     ELSE Replied(x, "failed", "finish") /\ UNCHANGED inflight
  /\ UNCHANGED <<callers, durable, owner, results, cmd, executing, net, continuing, errors>>

\* The command's context is over, or a call it makes fails.
ExecutionFails(x) ==
  /\ pc[x] \in {"load", "apply"}
  /\ Fails
  /\ Replied(x, "failed", "finish")
  /\ UNCHANGED <<callers, durable, owner, results, cmd, local, net, continuing>>

Recorded(x) == [status |-> "answered", answer |-> cmd[x].answer]

\* The statement is fenced by the token and finds the row pending, or does nothing.
CommitApplies(x) == cmd[x].token = token /\ Pending

\* The continuation belongs to the command and may end with it.
Commit_TiedToCommand(x) ==
  /\ pc[x] = "commit"
  /\ inflight' = inflight \ {At(x)}
  /\ IF CommitApplies(x)
     THEN /\ row' = Recorded(x)
          /\ continuing' \in {continuing, continuing \cup {token}}
          /\ Replied(x, "applied", "persist")
     ELSE Replied(x, "failed", "finish") /\ UNCHANGED <<row, continuing>>
  /\ UNCHANGED <<callers, run, token, owner, results, cmd, executing, net, errors>>

\* The statement commits and the handler starts the continuation of the run.
Commit(x) ==
  /\ pc[x] = "commit"
  /\ inflight' = inflight \ {At(x)}
  /\ IF CommitApplies(x)
     THEN /\ row' = Recorded(x)
          /\ continuing' = continuing \cup {token}
          /\ Replied(x, "applied", "persist")
     ELSE Replied(x, "failed", "finish") /\ UNCHANGED <<row, continuing>>
  /\ UNCHANGED <<callers, run, token, owner, results, cmd, executing, net, errors>>

\* The deadline ends the call: the statement may have been committed, and the
\* handler does not continue the run.
CommitTimesOut(x) ==
  /\ pc[x] = "commit"
  /\ Fails
  /\ inflight' = inflight \ {At(x)}
  /\ row' \in {row} \cup (IF CommitApplies(x) THEN {Recorded(x)} ELSE {})
  /\ Replied(x, "failed", "finish")
  /\ UNCHANGED <<callers, run, token, owner, results, cmd, executing, net, continuing>>

\* persistCommandResult: SETNX, and what is stored is the answer.
PersistResult(x) ==
  /\ pc[x] = "persist"
  /\ results' = [results EXCEPT ![Control(x)] = IF @ = NoAnswer THEN Answer(x) ELSE @]
  /\ Replied(x, Verdict(Answer(x), results'[Control(x)]), "finish")
  /\ UNCHANGED <<callers, durable, owner, cmd, local, net, continuing, errors>>

PersistFails(x) ==
  /\ pc[x] = "persist"
  /\ Fails
  /\ Goto(x, "finish")
  /\ UNCHANGED <<callers, durable, owner, results, cmd, reply, local, net, continuing>>

\* The execution is forgotten without a signal.
FinishExecution_Silent(x) ==
  /\ pc[x] = "finish"
  /\ executing' = executing \ {<<At(x), Control(x)>>}
  /\ Goto(x, "reply")
  /\ UNCHANGED <<callers, durable, owner, results, cmd, reply, inflight, net, continuing, errors>>

\* finishCommandExecution wakes those who waited for this execution.
FinishExecution(x) ==
  /\ pc[x] = "finish"
  /\ executing' = executing \ {<<At(x), Control(x)>>}
  /\ pc' = [y \in Procs |->
             IF y = x THEN "reply"
             ELSE IF pc[y] = "follow" /\ At(y) = At(x) /\ Control(y) = Control(x)
                  THEN "followed" ELSE pc[y]]
  /\ UNCHANGED <<callers, durable, owner, results, cmd, reply, inflight, net, continuing, errors>>

\* A call on the owner returns what the execution said.
ReplyLocal(a) ==
  /\ a \in Attempts /\ pc[a] = "reply"
  /\ Told(a, reply[a])
  /\ reply' = [reply EXCEPT ![a] = "failed"]
  /\ UNCHANGED <<durable, owner, results, local, net, continuing, errors>>

\* A worker publishes it to the server that sent the command, and admits the next one.
PublishResult(w) ==
  /\ w \in Workers /\ pc[w] = "reply"
  /\ net' = net \cup {[to |-> cmd[w].peer, type |-> "result", answer |-> cmd[w].answer,
                       word |-> reply[w]]}
  /\ cmd' = [cmd EXCEPT ![w] = NoCmd]
  /\ reply' = [reply EXCEPT ![w] = "failed"]
  /\ Goto(w, "idle")
  /\ UNCHANGED <<callers, durable, owner, results, local, continuing, errors>>
-----------------------------------------------------------------------------
(* The run and its owner                                                   *)

\* The continuation resumes the run, if its owner still has it ...
Continue(t) ==
  /\ t \in continuing
  /\ continuing' = continuing \ {t}
  /\ run' = IF run = "waiting" /\ t = token /\ ref.token = t THEN "running" ELSE run
  /\ UNCHANGED <<callers, row, token, owner, results, pc, cmd, reply, local, net, errors>>

\* ... and a resumed run ends.
RunEnds ==
  /\ run = "running"
  /\ run' = "ended" /\ ref' = NoRef
  /\ held' = [s \in Servers |-> 0]
  /\ UNCHANGED <<callers, row, token, results, pc, cmd, reply, local, net, continuing, errors>>

\* An abort ends the run while it waits.
AbortEnds ==
  /\ run = "waiting" /\ ref # NoRef
  /\ run' = "ended" /\ ref' = NoRef
  /\ held' = [s \in Servers |-> 0]
  /\ UNCHANGED <<callers, row, token, results, pc, cmd, reply, local, net, continuing, errors>>

\* The lease of the owner runs out; its control may stay for a while.
LeaseLost ==
  /\ ref # NoRef
  /\ Fails
  /\ ref' = NoRef
  /\ UNCHANGED <<callers, durable, held, results, pc, cmd, reply, local, net, continuing>>

\* A reaper takes the parked run over, together with its decision ...
Reclaim ==
  /\ ref = NoRef /\ run = "waiting" /\ Pending
  /\ token < MaxToken
  /\ token' = token + 1
  /\ UNCHANGED <<callers, row, run, owner, results, pc, cmd, reply, local, net, continuing, errors>>

\* ... and reserves it for itself.
Rereserve(s) ==
  /\ ref = NoRef /\ run = "waiting" /\ token > 1
  /\ \A p \in Servers : held[p] # token
  /\ ref' = [owner |-> s, token |-> token]
  /\ held' = [held EXCEPT ![s] = token]
  /\ UNCHANGED <<callers, durable, results, pc, cmd, reply, local, net, continuing, errors>>

\* A run without an owner whose decision is no longer pending, or that cannot be
\* taken over once more, is condemned.
Condemn ==
  /\ ref = NoRef /\ run # "ended"
  /\ run' = "ended"
  /\ UNCHANGED <<callers, row, token, owner, results, pc, cmd, reply, local, net, continuing, errors>>

\* The next run of the session supersedes a decision that is still pending.
Supersede ==
  /\ run = "ended" /\ Pending
  /\ row' = [row EXCEPT !.status = "cancelled"]
  /\ UNCHANGED <<callers, run, token, owner, results, pc, cmd, reply, local, net, continuing, errors>>

\* Results are kept for a time.
ResultExpires(c) ==
  /\ results[c] # NoAnswer
  /\ results' = [results EXCEPT ![c] = NoAnswer]
  /\ UNCHANGED <<callers, durable, owner, pc, cmd, reply, local, net, continuing, errors>>

\* A server dies: its callers hear nothing more, its workers and its control are gone.
Crash(s) ==
  /\ Fails
  /\ LET here == {x \in Procs : At(x) = s /\ pc[x] \notin {"idle", "told"}} IN
     /\ told' = [a \in Attempts |-> IF a \in here THEN "failed" ELSE told[a]]
     /\ pc' = [x \in Procs |-> IF x \notin here THEN pc[x]
                               ELSE IF x \in Attempts THEN "told" ELSE "idle"]
     /\ cmd' = [x \in Procs |-> IF x \in here THEN NoCmd ELSE cmd[x]]
     /\ reply' = [x \in Procs |-> IF x \in here THEN "failed" ELSE reply[x]]
  /\ executing' = {e \in executing : e[1] # s}
  /\ inflight' = inflight \ {s}
  /\ net' = {m \in net : m.to # s}
  /\ held' = [held EXCEPT ![s] = 0]
  /\ continuing' = IF held[s] # 0 THEN continuing \ {held[s]} ELSE continuing
  /\ UNCHANGED <<ask, repeats, durable, ref, results>>
-----------------------------------------------------------------------------
Execute(x) ==
  \/ BeginExecution(x) \/ Followed(x) \/ LoadStored(x) \/ Apply(x) \/ ExecutionFails(x)
  \/ Commit(x) \/ CommitTimesOut(x) \/ PersistResult(x) \/ PersistFails(x)
  \/ FinishExecution(x)

AttemptStep(a) ==
  \/ Lookup(a) \/ ResolveDecision(a) \/ GetRun(a) \/ LoadRef(a) \/ LookupFails(a)
  \/ PollResult(a) \/ WaitTimesOut(a) \/ Execute(a) \/ FollowerGivesUp(a) \/ ReplyLocal(a)

WorkerStep(w) == Execute(w) \/ PublishResult(w)

OwnerStep ==
  \/ \E t \in 1..MaxToken : Continue(t)
  \/ Condemn

RoutingNext ==
  \/ \E a \in Attempts, s \in Servers, answer \in Answers : Submit(a, s, answer)
  \/ \E a \in Attempts : AttemptStep(a) \/ Republish(a)
  \/ \E w \in Workers : WorkerStep(w)
  \/ \E m \in net : DeliverCommand(m) \/ DeliverResult(m)
  \/ OwnerStep \/ RunEnds \/ AbortEnds \/ LeaseLost \/ Reclaim \/ Supersede
  \/ \E s \in Servers : Rereserve(s) \/ Crash(s)
  \/ \E c \in Controls : ResultExpires(c)

\* Calls and workers go on, continuations run, an ownerless run is condemned.
RoutingSpec ==
  /\ RoutingInit /\ [][RoutingNext]_routingVars
  /\ \A a \in Attempts : WF_routingVars(AttemptStep(a))
  /\ \A w \in Workers : WF_routingVars(WorkerStep(w))
  /\ WF_routingVars(OwnerStep)
-----------------------------------------------------------------------------
(* Properties                                                              *)

Steps == {"idle", "lookup", "resolve", "run", "ref", "wait", "told", "begin", "follow",
          "followed", "load", "apply", "commit", "persist", "finish", "reply"}
Words == {"nothing", "applied", "refused", "conflict", "failed"}

\* Domains of the variables of the decision route.
RoutingTypeOK ==
  /\ ask \in [Attempts -> Answers \cup {NoAnswer}] /\ told \in [Attempts -> Words]
  /\ repeats \subseteq Attempts
  /\ row \in [status : {"pending", "answered", "cancelled"}, answer : Answers \cup {NoAnswer}]
  /\ run \in {"waiting", "running", "ended"}
  /\ token \in 1..MaxToken
  /\ ref \in [owner : Servers, token : 1..MaxToken] \cup {NoRef}
  /\ held \in [Servers -> 0..MaxToken]
  /\ results \in [Controls -> Answers \cup {NoAnswer}]
  /\ pc \in [Procs -> Steps] /\ reply \in [Procs -> Words]
  /\ executing \subseteq Workers /\ inflight \subseteq Servers
  /\ continuing \subseteq 1..MaxToken /\ errors \in 0..MaxErrors

\* The route implements the contract: an answer is recorded once, "applied" is said
\* of that answer only, and a repeated answer is not refused after it was acknowledged.
Contract == INSTANCE ControlContract WITH
  outcome <- IF row.status = "cancelled" THEN Closed ELSE row.answer
DecisionContract == Contract!ContractSpec

\* commandExecutions: on a server, at most one process executes a control id, and
\* those who wait for it have somebody to wait for.
ExecutingPcs == {"load", "apply", "commit", "persist", "finish"}
OneExecution ==
  \A s \in Servers, c \in Controls :
    LET here == {x \in Procs : pc[x] # "idle" /\ At(x) = s /\ Control(x) = c} IN
    /\ \A x, y \in here : pc[x] \in ExecutingPcs /\ pc[y] \in ExecutingPcs => x = y
    /\ (\E x \in here : pc[x] = "follow") => \E x \in here : pc[x] \in ExecutingPcs

\* Whatever is lost, a caller is told something.
CallersReturn == \A a \in Attempts : pc[a] = "lookup" ~> pc[a] = "told"

\* The answer to a decision moves its run: it does not stay parked.
AnswerContinues == Answered ~> run # "waiting"

\* The same, whatever failed on the way, unless a caller of the recorded answer was told
\* that it failed, or the owner of the run is gone and its lease has yet to run out.
Reported    == \E a \in Attempts : told[a] = "failed" /\ ask[a] = row.answer
OwnerIsGone == ref # NoRef /\ held[ref.owner] # ref.token
AnswerContinuesOrFails == Answered ~> (run # "waiting" \/ Reported \/ OwnerIsGone)

\* RouteDecisionResponse: the answer that was recorded is never refused.
RecordedNotRefused == \A a \in Attempts : told[a] = "refused" => row.answer # ask[a]
=============================================================================
