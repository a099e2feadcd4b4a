----------------------- MODULE ControlRouting_proofs -----------------------
(***************************************************************************)
(* Proofs about ControlRouting, for any calls, answers, control ids and    *)
(* servers, and any number of failing calls and takeovers: the route       *)
(* implements ControlContract, and commandExecutions lets one process of a *)
(* server execute a control id at a time.                                  *)
(*                                                                         *)
(* The contract is about callers and the row; what carries it from one to  *)
(* the other is that the word "applied" is never ahead of the row: not in  *)
(* a stored result, not in a reply, not in a published message.  That a    *)
(* repeated answer is not refused rests on where a repeat can get: it finds *)
(* its own answer in the result or in the row, and never becomes a command. *)
(***************************************************************************)
EXTENDS ControlRouting, TLAPS

AtRest    == {"idle", "told"}
CallerPcs == {"lookup", "resolve", "run", "ref", "wait"}
Verdicts  == {"applied", "conflict", "failed"}

Asked(answer)  == \E a \in Attempts : ask[a] = answer
Stands(answer) == Answered /\ row.answer = answer

\* What a process executes, or waits for: a control id on a server.
Key(x) == <<At(x), Control(x)>>

CommandType == [at : Servers \cup {NoServer}, answer : Answers \cup {NoAnswer},
                token : 0..MaxToken, peer : Servers \cup {NoServer}, tries : Nat]
RequestType == [to : Servers, type : {"command"}, answer : Answers, token : 0..MaxToken,
                from : Servers]
ResultType  == [to : Servers, type : {"result"}, answer : Answers, word : Verdicts]

\* A call has a question from its submission on, and an answer when it is told.
CallsMatch ==
  \A a \in Attempts :
    /\ pc[a] = "idle" <=> ask[a] = NoAnswer
    /\ pc[a] = "told" <=> told[a] # "nothing"
    /\ pc[a] \notin AtRest => cmd[a].answer = ask[a]

\* Processes that work have a command, those of a server one of that server.
CommandsMatch ==
  /\ cmd \in [Procs -> CommandType]
  /\ \A x \in Procs :
       /\ pc[x] \in AtRest => cmd[x] = NoCmd
       /\ pc[x] \notin AtRest => At(x) \in Servers /\ Answer(x) \in Answers
       /\ pc[x] = "wait" => cmd[x].peer \in Servers
  /\ \A w \in Workers :
       /\ pc[w] \notin CallerPcs \cup {"told"}
       /\ pc[w] # "idle" => Key(w) = w /\ Asked(Answer(w)) /\ cmd[w].peer \in Servers

NetMatches == \A m \in net : m \in RequestType \cup ResultType /\ Asked(m.answer)

\* The entries of commandExecutions and the processes that execute are the same,
\* and those who wait wait for an entry.
ExecutionsMatch ==
  /\ \A e \in executing : \E x \in Procs : pc[x] \in ExecutingPcs /\ Key(x) = e
  /\ \A x \in Procs : pc[x] \in ExecutingPcs \cup {"follow"} => Key(x) \in executing
  /\ \A x, y \in Procs :
       pc[x] \in ExecutingPcs /\ pc[y] \in ExecutingPcs /\ Key(x) = Key(y) => x = y

RowMatches ==
  /\ ~Answered => row.answer = NoAnswer
  /\ Answered => row.answer \in Answers

ResultsMatch ==
  \A c \in Controls : results[c] # NoAnswer => Stands(results[c]) /\ ControlOf[results[c]] = c

\* Nobody says "applied" of an answer before it stands.
AppliedStands ==
  /\ \A x \in Procs :
       /\ reply[x] \in Verdicts
       /\ pc[x] = "persist" => Stands(Answer(x))
       /\ reply[x] = "applied" => pc[x] \in {"persist", "finish", "reply"} /\ Stands(Answer(x))
  /\ \A m \in net : m.type = "result" /\ m.word = "applied" => Stands(m.answer)
  /\ \A a \in Attempts : told[a] = "applied" => Stands(ask[a])

\* A repeat of an acknowledged answer is told at the latest from the row.
RepeatsStand == \A a \in repeats : Stands(ask[a]) /\ pc[a] \in {"lookup", "resolve", "told"}

\* The inductive invariant of the route.
RoutingInvariant ==
  /\ RoutingTypeOK /\ CallsMatch /\ CommandsMatch /\ NetMatches /\ ExecutionsMatch
  /\ RowMatches /\ ResultsMatch /\ AppliedStands /\ RepeatsStand
-----------------------------------------------------------------------------
\* The keys of processes are workers' names.
LEMMA KeyOfProcess ==
  ASSUME RoutingInvariant, NEW x \in Procs, pc[x] \notin AtRest
  PROVE  Key(x) \in Workers /\ At(x) \in Servers /\ Answer(x) \in Answers /\ Control(x) \in Controls
BY RoutingAssumption DEF RoutingInvariant, CommandsMatch, Key, Control, Answer, Workers

\* Calls are none of the workers.
LEMMA CallsAreNotWorkers == \A a \in Attempts : a \in Procs /\ a \notin Workers
BY RoutingAssumption DEF Procs, Workers

\* An answer that stands goes on standing: a row is written while it is pending.
LEMMA StandingStays ==
  ASSUME row' = row \/ ~Answered, NEW answer, Stands(answer)
  PROVE  Stands(answer)'
BY DEF Stands, Answered

\* Steps that begin or end no execution, and let nobody wait for one.
LEMMA ExecutionsStay ==
  ASSUME ExecutionsMatch, executing' = executing,
         \A y \in Procs :
           /\ pc'[y] \in ExecutingPcs <=> pc[y] \in ExecutingPcs
           /\ pc'[y] = "follow" => pc[y] = "follow"
           /\ pc[y] \in ExecutingPcs \cup {"follow"} /\ pc'[y] \in ExecutingPcs \cup {"follow"}
                => cmd'[y] = cmd[y]
  PROVE  ExecutionsMatch'
<1>1. \A y \in Procs : pc'[y] \in ExecutingPcs \cup {"follow"} =>
        pc[y] \in ExecutingPcs \cup {"follow"} /\ Key(y)' = Key(y)
  BY DEF Key, At, Control
<1>2. \A y \in Procs : pc[y] \in ExecutingPcs => pc'[y] \in ExecutingPcs /\ Key(y)' = Key(y)
  BY DEF Key, At, Control
<1> QED BY <1>1, <1>2 DEF ExecutionsMatch

\* Steps that tell a call something which its answer bears out.
LEMMA TellingStep ==
  ASSUME RoutingInvariant, NEW a \in Attempts, NEW word \in Words \ {"nothing"},
         pc[a] \notin AtRest \cup ExecutingPcs, word = "applied" => Stands(ask[a]),
         Told(a, word),
         (reply' = reply /\ pc[a] # "reply") \/ reply' = [reply EXCEPT ![a] = "failed"],
         UNCHANGED <<durable, owner, results, local, net, continuing>>, errors' \in 0..MaxErrors
  PROVE  RoutingInvariant'
<1> USE CallsAreNotWorkers DEF RoutingInvariant, durable, owner, local
<1>1. /\ pc \in [Procs -> Steps] /\ reply \in [Procs -> Words] /\ cmd \in [Procs -> CommandType]
      /\ told \in [Attempts -> Words]
  BY DEF RoutingTypeOK, CommandsMatch
<1>2. /\ told' = [told EXCEPT ![a] = word] /\ cmd' = [cmd EXCEPT ![a] = NoCmd]
      /\ pc' = [pc EXCEPT ![a] = "told"] /\ ask' = ask /\ repeats' = repeats
  BY DEF Told, Goto
<1>3. \A y \in Procs : y # a => pc'[y] = pc[y] /\ reply'[y] = reply[y] /\ cmd'[y] = cmd[y]
  BY <1>1, <1>2
<1>4. /\ pc'[a] = "told" /\ reply'[a] \in Verdicts \ {"applied"} /\ cmd'[a] = NoCmd
      /\ told'[a] = word
  BY <1>1, <1>2 DEF AppliedStands, Verdicts, ExecutingPcs
<1>5. RoutingTypeOK'
  BY <1>1, <1>2 DEF RoutingTypeOK, Steps, Words
<1>6. CallsMatch'
  BY <1>1, <1>2, <1>3, <1>4 DEF CallsMatch, AtRest
<1>7. CommandsMatch'
  <2>1. NoCmd \in CommandType
    BY RoutingAssumption DEF NoCmd, CommandType
  <2>2. cmd' \in [Procs -> CommandType]
    BY <1>1, <1>2, <2>1
  <2>3. \A w \in Workers : w # a
    OBVIOUS
  <2> QED BY <2>2, <2>3, <1>2, <1>3, <1>4
          DEF CommandsMatch, AtRest, At, Answer, Key, Control, Asked, Procs
<1>8. NetMatches'
  BY <1>2 DEF NetMatches, Asked
<1>9. ExecutionsMatch'
  BY <1>3, <1>4, ExecutionsStay DEF ExecutingPcs
<1>10. RowMatches' /\ ResultsMatch'
  BY DEF RowMatches, ResultsMatch, Stands, Answered
<1>11. AppliedStands'
  <2>1. \A answer : Stands(answer)' <=> Stands(answer)
    BY DEF Stands, Answered
  <2>2. \A b \in Attempts : b # a => told'[b] = told[b]
    BY <1>1, <1>2
  <2> QED BY <2>1, <2>2, <1>2, <1>3, <1>4 DEF AppliedStands, Answer
<1>12. RepeatsStand'
  BY <1>2, <1>3, <1>4 DEF RepeatsStand, Stands, Answered, RoutingTypeOK
<1> QED BY <1>5, <1>6, <1>7, <1>8, <1>9, <1>10, <1>11, <1>12

\* Steps of a call on its way to a command.
LEMMA AskingStep ==
  ASSUME RoutingInvariant, NEW a \in Attempts, pc[a] \in CallerPcs,
         NEW to \in {"resolve", "run", "ref", "begin", "wait"},
         pc' = [pc EXCEPT ![a] = to],
         NEW c \in CommandType, cmd' = [cmd EXCEPT ![a] = c],
         c.at = At(a), c.answer = Answer(a), to = "wait" => c.peer \in Servers,
         a \in repeats => to = "resolve",
         \A m \in net' : m \in net \/ (m \in RequestType /\ Asked(m.answer)),
         UNCHANGED <<callers, durable, owner, results, reply, local, continuing, errors>>
  PROVE  RoutingInvariant'
<1> USE CallsAreNotWorkers DEF RoutingInvariant, callers, durable, owner, local
<1>1. pc \in [Procs -> Steps] /\ reply \in [Procs -> Words] /\ cmd \in [Procs -> CommandType]
  BY DEF RoutingTypeOK, CommandsMatch
<1>2. \A y \in Procs : y # a => pc'[y] = pc[y] /\ cmd'[y] = cmd[y]
  BY <1>1
<1>3. pc'[a] = to /\ cmd'[a] = c
  BY <1>1
<1>4. RoutingTypeOK'
  BY <1>1 DEF RoutingTypeOK, Steps
<1>5. CallsMatch'
  BY <1>2, <1>3 DEF CallsMatch, AtRest, CallerPcs, Answer
<1>6. CommandsMatch'
  <2>1. cmd' \in [Procs -> CommandType]
    BY <1>1
  <2>2. \A w \in Workers : w # a
    OBVIOUS
  <2> QED BY <2>1, <2>2, <1>2, <1>3
          DEF CommandsMatch, AtRest, CallerPcs, At, Answer, Key, Control, Asked, Procs
<1>7. NetMatches'
  BY DEF NetMatches, Asked
<1>8. ExecutionsMatch'
  BY <1>2, <1>3, ExecutionsStay DEF ExecutingPcs, CallerPcs
<1>9. RowMatches' /\ ResultsMatch'
  BY DEF RowMatches, ResultsMatch, Stands, Answered
<1>10. AppliedStands'
  <2>1. \A answer : Stands(answer)' <=> Stands(answer)
    BY DEF Stands, Answered
  <2>2. reply[a] # "applied"
    BY DEF AppliedStands, CallerPcs
  <2> QED BY <2>1, <2>2, <1>2, <1>3 DEF AppliedStands, Answer, RequestType
<1>11. RepeatsStand'
  BY <1>2, <1>3 DEF RepeatsStand, Stands, Answered, RoutingTypeOK
<1> QED BY <1>4, <1>5, <1>6, <1>7, <1>8, <1>9, <1>10, <1>11

\* Steps of an execution: what is said of an answer is said after the row.
LEMMA ExecutingStep ==
  ASSUME RoutingInvariant, NEW x \in Procs, pc[x] \in ExecutingPcs \cup {"begin", "followed"},
         NEW to \in ExecutingPcs \cup {"follow", "reply"}, pc' = [pc EXCEPT ![x] = to],
         NEW word \in Verdicts, reply' = [reply EXCEPT ![x] = word],
         row' = row \/ ~Answered,
         to = "persist" => Stands(Answer(x))',
         word = "applied" => to \in {"persist", "finish", "reply"} /\ Stands(Answer(x))',
         RoutingTypeOK', ExecutionsMatch', RowMatches', ResultsMatch',
         UNCHANGED <<callers, cmd, net>>
  PROVE  RoutingInvariant'
<1> USE CallsAreNotWorkers DEF RoutingInvariant, callers
<1>1. pc \in [Procs -> Steps] /\ reply \in [Procs -> Words]
  BY DEF RoutingTypeOK
<1>2. \A y \in Procs : y # x => pc'[y] = pc[y] /\ reply'[y] = reply[y]
  BY <1>1
<1>3. pc'[x] = to /\ reply'[x] = word
  BY <1>1
<1>4. CallsMatch'
  BY <1>2, <1>3 DEF CallsMatch, AtRest, ExecutingPcs
<1>5. CommandsMatch'
  BY <1>2, <1>3
     DEF CommandsMatch, AtRest, CallerPcs, ExecutingPcs, At, Answer, Key, Control, Asked, Procs
<1>6. NetMatches'
  BY DEF NetMatches, Asked
<1>7. AppliedStands'
  <2>1. \A answer : Stands(answer) => Stands(answer)'
    BY StandingStays
  <2> QED BY <2>1, <1>2, <1>3 DEF AppliedStands, Answer
<1>8. RepeatsStand'
  <2>1. \A a \in repeats : Stands(ask[a]) => Stands(ask[a])'
    BY StandingStays DEF Stands, Answered
  <2>2. x \notin repeats
    BY DEF RepeatsStand, ExecutingPcs
  <2> QED BY <2>1, <2>2, <1>2, <1>3 DEF RepeatsStand, RoutingTypeOK, Procs
<1> QED BY <1>4, <1>5, <1>6, <1>7, <1>8

\* Steps of the run and its owner: no process takes part.
LEMMA OwnerSideStep ==
  ASSUME RoutingInvariant, RoutingTypeOK', row' = row \/ ~Answered, RowMatches', ResultsMatch',
         UNCHANGED <<callers, pc, cmd, reply, executing, net>>
  PROVE  RoutingInvariant'
<1> USE DEF RoutingInvariant, callers
<1>1. CallsMatch' /\ CommandsMatch' /\ NetMatches'
  BY DEF CallsMatch, CommandsMatch, NetMatches, At, Answer, Key, Control, Asked
<1>2. ExecutionsMatch'
  BY ExecutionsStay
<1>3. AppliedStands'
  <2>1. \A answer : Stands(answer) => Stands(answer)'
    BY StandingStays
  <2> QED BY <2>1 DEF AppliedStands, Answer
<1>4. RepeatsStand'
  <2>1. \A a \in repeats : Stands(ask[a]) => Stands(ask[a])'
    BY StandingStays DEF Stands, Answered
  <2> QED BY <2>1 DEF RepeatsStand
<1> QED BY <1>1, <1>2, <1>3, <1>4
-----------------------------------------------------------------------------
\* Before the first call nothing is recorded, told or under way.
LEMMA InitEstablishes == RoutingInit => RoutingInvariant
<1> SUFFICES ASSUME RoutingInit PROVE RoutingInvariant
  OBVIOUS
<1> USE RoutingAssumption DEF RoutingInit
<1>1. RoutingTypeOK
  BY DEF RoutingTypeOK, Steps, Words
<1>2. CallsMatch
  BY DEF CallsMatch, Procs, AtRest
<1>3. CommandsMatch
  BY DEF CommandsMatch, NoCmd, CommandType, AtRest, CallerPcs, Procs
<1>4. NetMatches /\ ExecutionsMatch
  BY DEF NetMatches, ExecutionsMatch, ExecutingPcs
<1>5. RowMatches /\ ResultsMatch
  BY DEF RowMatches, ResultsMatch, Answered
<1>6. AppliedStands /\ RepeatsStand
  BY DEF AppliedStands, RepeatsStand, Verdicts
<1> QED BY <1>1, <1>2, <1>3, <1>4, <1>5, <1>6 DEF RoutingInvariant

\* A call is new: it repeats an acknowledged answer only if that answer stands.
LEMMA SubmitStep ==
  ASSUME RoutingInvariant, NEW a \in Attempts, NEW s \in Servers, NEW answer \in Answers,
         Submit(a, s, answer)
  PROVE  RoutingInvariant'
<1> USE CallsAreNotWorkers DEF RoutingInvariant, durable, owner, local
<1>1. /\ pc \in [Procs -> Steps] /\ cmd \in [Procs -> CommandType] /\ reply \in [Procs -> Words]
      /\ ask \in [Attempts -> Answers \cup {NoAnswer}] /\ repeats \subseteq Attempts
  BY DEF RoutingTypeOK, CommandsMatch
<1> DEFINE c == [NoCmd EXCEPT !.at = s, !.answer = answer]
<1>2. c \in CommandType /\ c.at = s /\ c.answer = answer
  <2>1. NoCmd \in CommandType
    BY RoutingAssumption DEF NoCmd, CommandType
  <2>2. s \in Servers \cup {NoServer} /\ answer \in Answers \cup {NoAnswer}
    OBVIOUS
  <2> QED BY <2>1, <2>2 DEF CommandType
<1> HIDE DEF c
<1>3. /\ pc[a] = "idle" /\ ask' = [ask EXCEPT ![a] = answer]
      /\ cmd' = [cmd EXCEPT ![a] = c] /\ pc' = [pc EXCEPT ![a] = "lookup"]
      /\ told' = told /\ reply' = reply /\ net' = net /\ results' = results
  BY DEF Submit, Goto, c
<1>4. UNCHANGED <<durable, owner, local, continuing, errors>>
  BY DEF Submit
<1>5. \A y \in Procs : y # a => pc'[y] = pc[y] /\ cmd'[y] = cmd[y]
  BY <1>1, <1>3
<1>6. pc'[a] = "lookup" /\ cmd'[a] = c /\ ask'[a] = answer /\ ask[a] = NoAnswer /\ answer # NoAnswer
  BY <1>1, <1>3, RoutingAssumption DEF CallsMatch
<1>7. \A b \in Attempts : b # a => ask'[b] = ask[b]
  BY <1>1, <1>3
<1>8. repeats' = repeats \/ (repeats' = repeats \cup {a} /\ Stands(answer))
  BY DEF Submit, AppliedStands
<1>9. \A b \in Attempts : ask[b] # NoAnswer => ask'[b] = ask[b]
  BY <1>6, <1>7
<1>10. RoutingTypeOK'
  BY <1>1, <1>3, <1>4, <1>8 DEF RoutingTypeOK, Steps
<1>11. CallsMatch'
  BY <1>2, <1>3, <1>5, <1>6, <1>7 DEF CallsMatch, AtRest
<1>12. \A x : x # NoAnswer /\ Asked(x) => Asked(x)'
  BY <1>9 DEF Asked
<1>13. CommandsMatch'
  <2>1. cmd' \in [Procs -> CommandType]
    BY <1>1, <1>2, <1>3
  <2>2. \A w \in Workers : w # a /\ w \in Procs
    BY DEF Procs
  <2>3. NoAnswer \notin Answers
    BY RoutingAssumption
  <2> QED BY <2>1, <2>2, <2>3, <1>2, <1>5, <1>6, <1>12
          DEF CommandsMatch, AtRest, CallerPcs, At, Answer, Key, Control
<1>14. NetMatches'
  BY <1>3, <1>12, RoutingAssumption DEF NetMatches, RequestType, ResultType
<1>15. ExecutionsMatch'
  BY <1>3, <1>4, <1>5, <1>6, ExecutionsStay DEF ExecutingPcs
<1>16. RowMatches' /\ ResultsMatch'
  BY <1>3, <1>4 DEF RowMatches, ResultsMatch, Stands, Answered
<1>17. \A x : Stands(x)' <=> Stands(x)
  BY <1>4 DEF Stands, Answered
<1>18. AppliedStands'
  <2>1. told[a] = "nothing" /\ reply[a] # "applied"
    BY <1>3 DEF CallsMatch, AppliedStands
  <2> QED BY <2>1, <1>17, <1>3, <1>5, <1>6, <1>7 DEF AppliedStands, Answer
<1>19. RepeatsStand'
  BY <1>1, <1>3, <1>5, <1>6, <1>7, <1>8, <1>17 DEF RepeatsStand
<1> QED BY <1>10, <1>11, <1>13, <1>14, <1>15, <1>16, <1>18, <1>19

\* What is kept under the control id of a call decides on the call's own answer.
LEMMA VerdictStands ==
  ASSUME RoutingInvariant, NEW answer, NEW stored, Stands(stored)
  PROVE  /\ Verdict(answer, stored) \in {"applied", "conflict"}
         /\ Verdict(answer, stored) = "applied" => Stands(answer)
BY DEF Verdict

\* What a process that tells nothing of the row leaves of the types.
LEMMA FailureCounted ==
  ASSUME RoutingInvariant, Fails
  PROVE  errors' \in 0..MaxErrors
BY RoutingAssumption DEF Fails, RoutingInvariant, RoutingTypeOK

\* A call that looks its answer up is told what stands, or goes on to the run.
LEMMA LookupStep ==
  ASSUME RoutingInvariant, NEW a \in Attempts, Lookup(a)
  PROVE  RoutingInvariant'
<1>1. a \in Procs /\ cmd[a] \in CommandType /\ Control(a) \in Controls /\ Answer(a) = ask[a]
  BY KeyOfProcess, CallsAreNotWorkers
     DEF RoutingInvariant, CommandsMatch, CallsMatch, AtRest, Lookup, Answer
<1>2. CASE results[Control(a)] = NoAnswer
  <2>1. cmd \in [Procs -> CommandType] /\ cmd' = cmd
    BY <1>2 DEF Lookup, RoutingInvariant, CommandsMatch
  <2>2. cmd' = [cmd EXCEPT ![a] = cmd[a]]
    BY <2>1, <1>1
  <2>3. pc' = [pc EXCEPT ![a] = "resolve"] /\ pc[a] \in CallerPcs
    BY <1>2 DEF Lookup, Goto, CallerPcs
  <2> QED BY <1>1, <1>2, <2>2, <2>3, AskingStep DEF Lookup, At, Answer
<1>3. CASE results[Control(a)] # NoAnswer
  <2> DEFINE word == Verdict(Answer(a), results[Control(a)])
  <2>1. Stands(results[Control(a)])
    BY <1>1, <1>3 DEF RoutingInvariant, ResultsMatch
  <2>2. word \in Words \ {"nothing"} /\ (word = "applied" => Stands(ask[a]))
    BY <1>1, <2>1, VerdictStands DEF Words
  <2>3. pc[a] \notin AtRest \cup ExecutingPcs /\ pc[a] # "reply" /\ Told(a, word)
    BY <1>3 DEF Lookup, AtRest, ExecutingPcs
  <2>4. errors' \in 0..MaxErrors
    BY DEF Lookup, RoutingInvariant, RoutingTypeOK
  <2> HIDE DEF word
  <2> QED BY <2>2, <2>3, <2>4, TellingStep DEF Lookup
<1> QED BY <1>2, <1>3

\* A row that is answered under the control of a call has stood, or is a conflict.
LEMMA ResolveStep ==
  ASSUME RoutingInvariant, NEW a \in Attempts, ResolveDecision(a)
  PROVE  RoutingInvariant'
<1> DEFINE word == Verdict(Answer(a), row.answer)
<1>1. a \in Procs /\ cmd[a] \in CommandType /\ Control(a) \in Controls /\ Answer(a) = ask[a]
  BY KeyOfProcess, CallsAreNotWorkers
     DEF RoutingInvariant, CommandsMatch, CallsMatch, AtRest, ResolveDecision, Answer
<1>2. pc[a] \notin AtRest \cup ExecutingPcs /\ pc[a] # "reply" /\ pc[a] \in CallerPcs
  BY DEF ResolveDecision, AtRest, ExecutingPcs, CallerPcs
<1>3. errors' \in 0..MaxErrors
  BY DEF ResolveDecision, RoutingInvariant, RoutingTypeOK
<1>4. CASE Answered /\ Told(a, word)
  <2>1. Stands(row.answer)
    BY <1>4 DEF Stands
  <2>2. word \in Words \ {"nothing"} /\ (word = "applied" => Stands(ask[a]))
    BY <1>1, <2>1, VerdictStands DEF Words
  <2> HIDE DEF word
  <2> QED BY <1>2, <1>3, <1>4, <2>2, TellingStep DEF ResolveDecision
<1>5. CASE Told(a, "refused")
  BY <1>2, <1>3, <1>5, TellingStep DEF ResolveDecision, Words
<1>6. CASE Pending /\ cmd' = [cmd EXCEPT ![a].token = token] /\ Goto(a, "run") /\ UNCHANGED callers
  <2> DEFINE c == [cmd[a] EXCEPT !.token = token]
  <2>1. token \in 0..MaxToken
    BY RoutingAssumption DEF RoutingInvariant, RoutingTypeOK
  <2>2. c \in CommandType /\ c.at = At(a) /\ c.answer = Answer(a)
    BY <1>1, <2>1 DEF CommandType, At, Answer
  <2>3. cmd' = [cmd EXCEPT ![a] = c]
    BY <1>6
  <2>4. pc' = [pc EXCEPT ![a] = "run"]
    BY <1>6 DEF Goto
  <2>5. a \notin repeats
    BY <1>6 DEF RoutingInvariant, RepeatsStand, Stands, Answered, Pending
  <2>6. \A m \in net' : m \in net
    BY DEF ResolveDecision
  <2> HIDE DEF c
  <2> QED BY <1>1, <1>2, <1>6, <2>2, <2>3, <2>4, <2>5, <2>6, AskingStep DEF ResolveDecision
<1> QED BY <1>4, <1>5, <1>6 DEF ResolveDecision

\* getRun compares the token of the run, and refuses a run that does not wait.
LEMMA GetRunStep ==
  ASSUME RoutingInvariant, NEW a \in Attempts, GetRun(a)
  PROVE  RoutingInvariant'
<1>1. a \in Procs /\ cmd \in [Procs -> CommandType] /\ pc[a] = "run"
  BY CallsAreNotWorkers DEF RoutingInvariant, CommandsMatch, GetRun
<1>2. pc[a] \notin AtRest \cup ExecutingPcs /\ pc[a] # "reply" /\ pc[a] \in CallerPcs
  BY <1>1 DEF AtRest, ExecutingPcs, CallerPcs
<1>3. errors' \in 0..MaxErrors
  BY DEF GetRun, RoutingInvariant, RoutingTypeOK
<1>4. CASE Told(a, "failed")
  BY <1>2, <1>3, <1>4, TellingStep DEF GetRun, Words
<1>5. CASE Told(a, "refused")
  BY <1>2, <1>3, <1>5, TellingStep DEF GetRun, Words
<1>6. CASE Goto(a, "ref") /\ UNCHANGED <<callers, cmd>>
  <2>1. cmd' = [cmd EXCEPT ![a] = cmd[a]] /\ cmd[a] \in CommandType
    BY <1>1, <1>6
  <2>2. a \notin repeats
    BY <1>1 DEF RoutingInvariant, RepeatsStand
  <2>3. \A m \in net' : m \in net
    BY DEF GetRun
  <2> QED BY <1>2, <1>6, <2>1, <2>2, <2>3, AskingStep DEF GetRun, Goto, At, Answer
<1> QED BY <1>4, <1>5, <1>6 DEF GetRun

\* The command of a call is about its own answer, on the owner or on the way to it.
LEMMA LoadRefStep ==
  ASSUME RoutingInvariant, NEW a \in Attempts, LoadRef(a)
  PROVE  RoutingInvariant'
<1>1. a \in Procs /\ cmd \in [Procs -> CommandType] /\ pc[a] = "ref"
  BY CallsAreNotWorkers DEF RoutingInvariant, CommandsMatch, LoadRef
<1>2. pc[a] \notin AtRest \cup ExecutingPcs /\ pc[a] # "reply" /\ pc[a] \in CallerPcs
  BY <1>1 DEF AtRest, ExecutingPcs, CallerPcs
<1>3. a \notin repeats
  BY <1>1 DEF RoutingInvariant, RepeatsStand
<1>4. CASE ref = NoRef /\ Told(a, "failed") /\ UNCHANGED net
  <2>1. errors' \in 0..MaxErrors
    BY DEF LoadRef, RoutingInvariant, RoutingTypeOK
  <2> QED BY <1>2, <1>4, <2>1, TellingStep DEF LoadRef, Words
<1>5. /\ At(a) \in Servers /\ Answer(a) \in Answers /\ Asked(Answer(a))
      /\ ref.owner # NoServer => ref.owner \in Servers /\ ref.token \in 0..MaxToken
  BY <1>1, <1>2, KeyOfProcess, RoutingAssumption
     DEF RoutingInvariant, CallsMatch, AtRest, Asked, Answer, RoutingTypeOK, NoRef
<1>6. CASE /\ ref.owner = At(a) /\ cmd' = [cmd EXCEPT ![a].token = ref.token]
           /\ Goto(a, "begin") /\ UNCHANGED <<callers, net>>
  <2> DEFINE c == [cmd[a] EXCEPT !.token = ref.token]
  <2>1. ref.token \in 0..MaxToken
    BY <1>5, <1>6, RoutingAssumption
  <2>2. c \in CommandType /\ c.at = At(a) /\ c.answer = Answer(a)
    BY <1>1, <2>1 DEF CommandType, At, Answer
  <2>3. cmd' = [cmd EXCEPT ![a] = c] /\ pc' = [pc EXCEPT ![a] = "begin"]
    BY <1>6 DEF Goto
  <2>4. \A m \in net' : m \in net
    BY <1>6
  <2> HIDE DEF c
  <2> QED BY <1>2, <1>3, <1>6, <2>2, <2>3, <2>4, AskingStep DEF LoadRef
<1>7. CASE /\ ref.owner \notin {At(a), NoServer}
           /\ cmd' = [cmd EXCEPT ![a].token = ref.token, ![a].peer = ref.owner]
           /\ net' = net \cup {Request(cmd'[a])}
           /\ Goto(a, "wait") /\ UNCHANGED callers
  <2> DEFINE c == [cmd[a] EXCEPT !.token = ref.token, !.peer = ref.owner]
  <2>1. /\ c \in CommandType /\ c.at = At(a) /\ c.answer = Answer(a)
        /\ c.peer = ref.owner /\ c.token = ref.token
    BY <1>1, <1>5, <1>7 DEF CommandType, At, Answer
  <2>2. cmd' = [cmd EXCEPT ![a] = c] /\ pc' = [pc EXCEPT ![a] = "wait"]
    BY <1>1, <1>7 DEF Goto
  <2> HIDE DEF c
  <2>3. Request(cmd'[a]) \in RequestType /\ Request(cmd'[a]).answer = Answer(a)
    BY <1>1, <1>5, <1>7, <2>1, <2>2 DEF Request, RequestType
  <2>4. \A m \in net' : m \in net \/ (m \in RequestType /\ Asked(m.answer))
    BY <1>5, <1>7, <2>3
  <2> QED BY <1>2, <1>3, <1>5, <1>7, <2>1, <2>2, <2>4, AskingStep DEF LoadRef
<1> QED BY <1>4, <1>6, <1>7 DEF LoadRef

\* A call that gives up is told that it failed, whatever became of its command.
LEMMA GivingUpStep ==
  ASSUME RoutingInvariant, NEW a \in Attempts,
         LookupFails(a) \/ WaitTimesOut(a) \/ FollowerGivesUp(a)
  PROVE  RoutingInvariant'
<1>1. pc[a] \notin AtRest \cup ExecutingPcs /\ pc[a] # "reply"
  BY DEF LookupFails, WaitTimesOut, FollowerGivesUp, AtRest, ExecutingPcs
<1>2. errors' \in 0..MaxErrors
  BY FailureCounted
     DEF LookupFails, WaitTimesOut, FollowerGivesUp, RoutingInvariant, RoutingTypeOK
<1>3. Told(a, "failed") /\ UNCHANGED <<durable, owner, results, reply, local, net, continuing>>
  BY DEF LookupFails, WaitTimesOut, FollowerGivesUp
<1> QED BY <1>1, <1>2, <1>3, TellingStep DEF Words

\* A waiting call finds the result that was persisted.
LEMMA PollStep ==
  ASSUME RoutingInvariant, NEW a \in Attempts, PollResult(a)
  PROVE  RoutingInvariant'
<1> DEFINE word == Verdict(Answer(a), results[Control(a)])
<1>1. pc[a] \notin AtRest \cup ExecutingPcs /\ pc[a] # "reply"
  BY DEF PollResult, AtRest, ExecutingPcs
<1>2. Control(a) \in Controls /\ Answer(a) = ask[a]
  BY <1>1, KeyOfProcess, CallsAreNotWorkers DEF RoutingInvariant, CallsMatch, Answer
<1>3. Stands(results[Control(a)])
  BY <1>2 DEF PollResult, RoutingInvariant, ResultsMatch
<1>4. word \in Words \ {"nothing"} /\ (word = "applied" => Stands(ask[a]))
  BY <1>2, <1>3, VerdictStands DEF Words
<1>5. errors' \in 0..MaxErrors /\ Told(a, word)
  BY DEF PollResult, RoutingInvariant, RoutingTypeOK
<1> HIDE DEF word
<1> QED BY <1>1, <1>4, <1>5, TellingStep DEF PollResult

\* A waiting call publishes its command again, to the owner it knows.
LEMMA RepublishStep ==
  ASSUME RoutingInvariant, NEW a \in Attempts, Republish(a)
  PROVE  RoutingInvariant'
<1>1. /\ a \in Procs /\ cmd \in [Procs -> CommandType] /\ pc[a] = "wait"
      /\ pc \in [Procs -> Steps] /\ cmd[a].peer \in Servers
  BY CallsAreNotWorkers DEF RoutingInvariant, CommandsMatch, Republish, RoutingTypeOK
<1>2. At(a) \in Servers /\ Answer(a) \in Answers /\ Asked(Answer(a))
  BY <1>1, KeyOfProcess DEF RoutingInvariant, CallsMatch, AtRest, Asked, Answer
<1> DEFINE c == [cmd[a] EXCEPT !.tries = @ + 1]
<1>3. c \in CommandType /\ c.at = At(a) /\ c.answer = Answer(a) /\ c.peer = cmd[a].peer
  BY <1>1 DEF CommandType, At, Answer
<1>4. cmd' = [cmd EXCEPT ![a] = c] /\ pc' = [pc EXCEPT ![a] = "wait"]
  BY <1>1 DEF Republish
<1> HIDE DEF c
<1>5. Request(cmd[a]) \in RequestType /\ Request(cmd[a]).answer = Answer(a)
  BY <1>1, <1>2 DEF Request, RequestType, CommandType, At, Answer
<1>6. \A m \in net' : m \in net \/ (m \in RequestType /\ Asked(m.answer))
  BY <1>2, <1>5 DEF Republish
<1>7. a \notin repeats /\ pc[a] \in CallerPcs
  BY <1>1 DEF RoutingInvariant, RepeatsStand, CallerPcs
<1> QED BY <1>1, <1>3, <1>4, <1>6, <1>7, AskingStep DEF Republish

\* A call on the owner is told what its execution said.
LEMMA ReplyLocalStep ==
  ASSUME RoutingInvariant, NEW a \in Attempts, ReplyLocal(a)
  PROVE  RoutingInvariant'
<1>1. a \in Procs /\ pc[a] = "reply" /\ pc[a] \notin AtRest \cup ExecutingPcs
  BY CallsAreNotWorkers DEF ReplyLocal, AtRest, ExecutingPcs
<1>2. reply[a] \in Words \ {"nothing"} /\ (reply[a] = "applied" => Stands(ask[a]))
  BY <1>1 DEF RoutingInvariant, AppliedStands, Verdicts, Words, CallsMatch, Answer
<1>3. errors' \in 0..MaxErrors
  BY DEF ReplyLocal, RoutingInvariant, RoutingTypeOK
<1> QED BY <1>1, <1>2, <1>3, TellingStep DEF ReplyLocal
-----------------------------------------------------------------------------
\* A worker takes a command up: it is about an answer somebody gave.
LEMMA DeliverCommandStep ==
  ASSUME RoutingInvariant, NEW m \in net, DeliverCommand(m)
  PROVE  RoutingInvariant'
<1> USE DEF RoutingInvariant, callers, durable, owner, local
<1> DEFINE w == <<m.to, ControlOf[m.answer]>>
           c == [at |-> m.to, answer |-> m.answer, token |-> m.token, peer |-> m.from,
                 tries |-> 0]
<1>1. m \in RequestType /\ Asked(m.answer)
  BY DEF DeliverCommand, NetMatches, RequestType, ResultType
<1>2. w \in Workers /\ w \in Procs /\ c \in CommandType
  BY <1>1, RoutingAssumption DEF RequestType, CommandType, Workers, Procs
<1>3. /\ pc \in [Procs -> Steps] /\ cmd \in [Procs -> CommandType]
  BY DEF RoutingTypeOK, CommandsMatch
<1>4. net' = net \ {m} /\ UNCHANGED <<callers, durable, owner, results, reply, local, continuing>>
  BY DEF DeliverCommand
<1>5. \A x : (Asked(x)' <=> Asked(x)) /\ (Stands(x)' <=> Stands(x))
  BY <1>4 DEF Asked, Stands, Answered
<1>6. NetMatches' /\ RowMatches' /\ ResultsMatch'
  BY <1>4, <1>5 DEF NetMatches, RowMatches, ResultsMatch, Answered
<1>7. CASE UNCHANGED <<pc, cmd, errors>>
  <2>1. RoutingTypeOK' /\ CallsMatch'
    BY <1>4, <1>7 DEF RoutingTypeOK, CallsMatch
  <2>2. CommandsMatch'
    BY <1>5, <1>7 DEF CommandsMatch, At, Answer, Key, Control
  <2>3. ExecutionsMatch'
    BY <1>4, <1>7, ExecutionsStay
  <2>4. AppliedStands' /\ RepeatsStand'
    BY <1>4, <1>5, <1>7 DEF AppliedStands, RepeatsStand, Answer
  <2> QED BY <1>6, <2>1, <2>2, <2>3, <2>4
<1>8. ASSUME pc[w] = "idle", NEW to \in {"begin", "reply"}, pc' = [pc EXCEPT ![w] = to],
             cmd' = [cmd EXCEPT ![w] = c], errors' \in 0..MaxErrors
      PROVE  RoutingInvariant'
  <2> HIDE DEF c, w
  <2>1. \A y \in Procs : y # w => pc'[y] = pc[y] /\ cmd'[y] = cmd[y]
    BY <1>3, <1>8
  <2>2. pc'[w] = to /\ cmd'[w] = c
    BY <1>2, <1>3, <1>8
  <2>3. \A a \in Attempts : a # w /\ a \in Procs
    BY <1>2, CallsAreNotWorkers
  <2>4. RoutingTypeOK'
    BY <1>3, <1>4, <1>8 DEF RoutingTypeOK, Steps
  <2>5. CallsMatch'
    BY <1>4, <2>1, <2>3 DEF CallsMatch
  <2>6. CommandsMatch'
    <3>1. c.at \in Servers /\ c.answer \in Answers /\ Asked(c.answer) /\ c.peer \in Servers
          /\ <<c.at, ControlOf[c.answer]>> = w
      BY <1>1 DEF c, w, RequestType
    <3>2. cmd' \in [Procs -> CommandType]
      BY <1>2, <1>3, <1>8
    <3>3. Key(w)' = w /\ At(w)' = c.at /\ Answer(w)' = c.answer
      BY <2>2, <3>1 DEF Key, At, Control, Answer
    <3>4. \A y \in Workers : y \in Procs
      BY DEF Procs
    <3> QED BY <1>2, <1>5, <2>1, <2>2, <3>1, <3>2, <3>3, <3>4
            DEF CommandsMatch, AtRest, CallerPcs, At, Answer, Key, Control
  <2>7. ExecutionsMatch'
    BY <1>4, <1>8, <2>1, <2>2, ExecutionsStay DEF ExecutingPcs
  <2>8. AppliedStands'
    <3>1. reply[w] # "applied"
      BY <1>2, <1>8 DEF AppliedStands
    <3> QED BY <1>4, <1>5, <2>1, <2>2, <3>1 DEF AppliedStands, Answer
  <2>9. RepeatsStand'
    BY <1>4, <1>5, <2>1, <2>3 DEF RepeatsStand, RoutingTypeOK
  <2> QED BY <1>6, <2>4, <2>5, <2>6, <2>7, <2>8, <2>9
<1>9. errors \in 0..MaxErrors
  BY DEF RoutingTypeOK
<1> QED BY <1>7, <1>8, <1>9, FailureCounted DEF DeliverCommand, Goto

\* A result that says "applied" is about the answer that stands; a waiter of another
\* answer is told that it conflicts.
LEMMA DeliverResultStep ==
  ASSUME RoutingInvariant, NEW m \in net, DeliverResult(m)
  PROVE  RoutingInvariant'
<1> USE DEF RoutingInvariant, callers, durable, owner, local
<1> DEFINE waiters == {a \in Attempts : pc[a] = "wait" /\ At(a) = m.to
                                        /\ Control(a) = ControlOf[m.answer]}
<1>1. m \in ResultType /\ (m.word = "applied" => Stands(m.answer))
  BY DEF DeliverResult, NetMatches, RequestType, ResultType, AppliedStands
<1>2. /\ told' = [a \in Attempts |-> IF a \notin waiters THEN told[a]
                                     ELSE IF Answer(a) # m.answer THEN "conflict" ELSE m.word]
      /\ cmd' = [x \in Procs |-> IF x \in waiters THEN NoCmd ELSE cmd[x]]
      /\ pc' = [x \in Procs |-> IF x \in waiters THEN "told" ELSE pc[x]]
      /\ net' = net \ {m} /\ ask' = ask /\ repeats' = repeats
      /\ UNCHANGED <<durable, owner, results, reply, local, continuing, errors>>
  BY DEF DeliverResult
<1>3. waiters \subseteq Attempts /\ \A a \in waiters : pc[a] = "wait" /\ Answer(a) = ask[a]
  BY DEF CallsMatch, Answer, AtRest
<1> HIDE DEF waiters
<1>4. /\ \A x \in Procs : x \notin waiters => pc'[x] = pc[x] /\ cmd'[x] = cmd[x]
      /\ \A x \in waiters : x \in Procs /\ pc'[x] = "told" /\ cmd'[x] = NoCmd
      /\ \A w \in Workers : w \in Procs /\ w \notin waiters
  BY <1>2, <1>3, CallsAreNotWorkers DEF Procs
<1>5. /\ \A a \in Attempts : a \notin waiters => told'[a] = told[a]
      /\ \A a \in waiters : /\ told'[a] \in Verdicts
                            /\ told'[a] = "applied" => Stands(ask[a])
  BY <1>1, <1>2, <1>3 DEF ResultType, Verdicts
<1>6. \A x : (Asked(x)' <=> Asked(x)) /\ (Stands(x)' <=> Stands(x))
  BY <1>2 DEF Asked, Stands, Answered
<1>7. RoutingTypeOK'
  <2>1. told' \in [Attempts -> Words]
    BY <1>1, <1>2 DEF RoutingTypeOK, Words, ResultType, Verdicts
  <2>2. pc' \in [Procs -> Steps]
    BY <1>2 DEF RoutingTypeOK, Steps
  <2> QED BY <1>2, <2>1, <2>2 DEF RoutingTypeOK
<1>8. CallsMatch'
  BY <1>2, <1>3, <1>4, <1>5, CallsAreNotWorkers DEF CallsMatch, AtRest, Verdicts
<1>9. CommandsMatch'
  <2>1. cmd' \in [Procs -> CommandType]
    <3>1. NoCmd \in CommandType
      BY RoutingAssumption DEF NoCmd, CommandType
    <3> QED BY <1>2, <3>1 DEF CommandsMatch
  <2> QED BY <2>1, <1>4, <1>6 DEF CommandsMatch, AtRest, At, Answer, Key, Control
<1>10. NetMatches' /\ RowMatches' /\ ResultsMatch'
  BY <1>2, <1>6 DEF NetMatches, RowMatches, ResultsMatch, Answered
<1>11. ExecutionsMatch'
  BY <1>2, <1>3, <1>4, ExecutionsStay DEF ExecutingPcs
<1>12. AppliedStands'
  <2>1. \A x \in waiters : reply[x] # "applied"
    BY <1>3, <1>4 DEF AppliedStands
  <2> QED BY <2>1, <1>2, <1>4, <1>5, <1>6 DEF AppliedStands, Answer
<1>13. RepeatsStand'
  <2>1. \A a \in repeats : a \notin waiters /\ a \in Procs
    BY <1>3, CallsAreNotWorkers DEF RepeatsStand, RoutingTypeOK
  <2> QED BY <2>1, <1>2, <1>4, <1>6 DEF RepeatsStand
<1> QED BY <1>7, <1>8, <1>9, <1>10, <1>11, <1>12, <1>13
-----------------------------------------------------------------------------
\* The facts about an executing process that its steps start from.
LEMMA ExecutorFacts ==
  ASSUME RoutingInvariant, NEW x \in Procs, pc[x] \in ExecutingPcs \cup {"begin", "followed"}
  PROVE  /\ pc \in [Procs -> Steps] /\ reply \in [Procs -> Words]
         /\ reply[x] \in Verdicts /\ reply = [reply EXCEPT ![x] = reply[x]]
         /\ Key(x) \in Workers /\ At(x) \in Servers
         /\ Answer(x) \in Answers /\ Answer(x) # NoAnswer /\ Control(x) \in Controls
         /\ Key(x) = <<At(x), Control(x)>> /\ Control(x) = ControlOf[Answer(x)]
<1>1. pc[x] \notin AtRest
  BY DEF AtRest, ExecutingPcs
<1> QED
  BY <1>1, KeyOfProcess, RoutingAssumption
     DEF RoutingInvariant, RoutingTypeOK, AppliedStands, Key, Control, Answer

\* A process moves on within its execution.
LEMMA WithinExecution ==
  ASSUME RoutingInvariant, NEW x \in Procs, NEW to \in Steps, pc' = [pc EXCEPT ![x] = to],
         pc[x] \in ExecutingPcs <=> to \in ExecutingPcs, to # "follow",
         executing' = executing, cmd' = cmd
  PROVE  ExecutionsMatch'
<1>1. pc \in [Procs -> Steps]
  BY DEF RoutingInvariant, RoutingTypeOK
<1>2. pc'[x] = to /\ \A y \in Procs : y # x => pc'[y] = pc[y]
  BY <1>1
<1> QED BY <1>2, ExecutionsStay DEF RoutingInvariant

\* Nothing of the row, the results and the run moves.
LEMMA UnrecordedStep ==
  ASSUME RoutingInvariant, UNCHANGED <<row, results>>
  PROVE  RowMatches' /\ ResultsMatch'
BY DEF RoutingInvariant, RowMatches, ResultsMatch, Stands, Answered

\* The first process to take a control id up enters it, a later one finds it entered.
LEMMA BeginStep ==
  ASSUME RoutingInvariant, NEW x \in Procs, BeginExecution(x)
  PROVE  RoutingInvariant'
<1>0. pc[x] \in ExecutingPcs \cup {"begin", "followed"}
  BY DEF BeginExecution
<1>1. /\ pc \in [Procs -> Steps] /\ reply[x] \in Verdicts /\ reply' = [reply EXCEPT ![x] = reply[x]]
      /\ Key(x) \in Workers /\ Key(x) = <<At(x), Control(x)>>
  BY <1>0, ExecutorFacts DEF BeginExecution
<1>2. reply[x] # "applied"
  BY DEF BeginExecution, RoutingInvariant, AppliedStands
<1>3. RowMatches' /\ ResultsMatch'
  BY UnrecordedStep DEF BeginExecution, durable
<1>4. \A y \in Procs : Key(y)' = Key(y)
  BY DEF BeginExecution, Key, At, Control
<1>5. CASE Key(x) \in executing
  <2>1. pc' = [pc EXCEPT ![x] = "follow"] /\ executing' = executing
    BY <1>1, <1>5 DEF BeginExecution, Goto
  <2>2. pc'[x] = "follow" /\ \A y \in Procs : y # x => pc'[y] = pc[y]
    BY <1>1, <2>1
  <2>3. ExecutionsMatch'
    BY <1>4, <1>5, <2>1, <2>2 DEF BeginExecution, RoutingInvariant, ExecutionsMatch, ExecutingPcs
  <2>4. RoutingTypeOK'
    BY <1>1, <2>1
       DEF BeginExecution, RoutingInvariant, RoutingTypeOK, Steps, callers, durable, owner, local
  <2>5. UNCHANGED <<callers, row, cmd, net>> /\ "follow" \in ExecutingPcs \cup {"follow", "reply"}
    BY DEF BeginExecution, durable
  <2> QED BY <1>0, <1>1, <1>2, <1>3, <2>1, <2>3, <2>4, <2>5, ExecutingStep
<1>6. CASE Key(x) \notin executing
  <2>1. pc' = [pc EXCEPT ![x] = "load"] /\ executing' = executing \cup {Key(x)}
    BY <1>1, <1>6 DEF BeginExecution, Goto
  <2>2. pc'[x] = "load" /\ \A y \in Procs : y # x => pc'[y] = pc[y]
    BY <1>1, <2>1
  <2>3. \A y \in Procs : pc[y] \in ExecutingPcs \cup {"follow"} => Key(y) # Key(x)
    BY <1>6 DEF RoutingInvariant, ExecutionsMatch
  <2>4. ExecutionsMatch'
    BY <1>4, <2>1, <2>2, <2>3 DEF RoutingInvariant, ExecutionsMatch, ExecutingPcs
  <2>5. RoutingTypeOK'
    BY <1>1, <2>1
       DEF BeginExecution, RoutingInvariant, RoutingTypeOK, Steps, callers, durable, owner, local
  <2>6. "load" \in ExecutingPcs \cup {"follow", "reply"} /\ UNCHANGED <<callers, row, cmd, net>>
    BY DEF BeginExecution, ExecutingPcs, durable
  <2> QED BY <1>0, <1>1, <1>2, <1>3, <2>1, <2>4, <2>5, <2>6, ExecutingStep
<1> QED BY <1>5, <1>6

\* A follower replies from the stored result, or that it failed.
LEMMA FollowedStep ==
  ASSUME RoutingInvariant, NEW x \in Procs, Followed(x)
  PROVE  RoutingInvariant'
<1>1. /\ pc[x] = "followed" /\ pc[x] \in ExecutingPcs \cup {"begin", "followed"}
      /\ pc[x] \notin ExecutingPcs /\ "reply" \notin ExecutingPcs
  BY DEF Followed, ExecutingPcs
<1>2. UNCHANGED <<callers, durable, owner, results, cmd, local, net, continuing, errors>>
  BY DEF Followed
<1>3. pc \in [Procs -> Steps] /\ Control(x) \in Controls /\ reply \in [Procs -> Words]
  BY <1>1, ExecutorFacts
<1> DEFINE word == IF results[Control(x)] = NoAnswer THEN "failed"
                   ELSE Verdict(Answer(x), results[Control(x)])
<1>4. pc' = [pc EXCEPT ![x] = "reply"] /\ reply' = [reply EXCEPT ![x] = word]
  BY DEF Followed, Replied, Goto
<1>5. word \in Verdicts /\ (word = "applied" => Stands(Answer(x)))
  <2>1. results[Control(x)] # NoAnswer => Stands(results[Control(x)])
    BY <1>3 DEF RoutingInvariant, ResultsMatch
  <2> QED BY <2>1, VerdictStands DEF Verdicts
<1> HIDE DEF word
<1>6. Stands(Answer(x)) => Stands(Answer(x))'
  BY <1>2 DEF Stands, Answered, durable, Answer
<1>7. RoutingTypeOK'
  BY <1>2, <1>3, <1>4, <1>5
     DEF RoutingInvariant, RoutingTypeOK, Steps, Words, Verdicts, callers, durable, owner, local
<1>8. ExecutionsMatch'
  BY <1>1, <1>2, <1>4, WithinExecution DEF Steps, local
<1>9. RowMatches' /\ ResultsMatch'
  BY <1>2, UnrecordedStep DEF durable
<1> QED BY <1>1, <1>2, <1>4, <1>5, <1>6, <1>7, <1>8, <1>9, ExecutingStep DEF durable

\* Steps of an execution that write nothing of the row and the results, and that say
\* "applied" only of an answer that stands.
LEMMA ReadingStep ==
  ASSUME RoutingInvariant, NEW x \in Procs, pc[x] \in ExecutingPcs,
         NEW to \in ExecutingPcs \ {"persist"}, pc' = [pc EXCEPT ![x] = to],
         NEW word \in Verdicts, reply' = [reply EXCEPT ![x] = word],
         word = "applied" => to = "finish" /\ Stands(Answer(x)),
         inflight' \subseteq Servers, errors' \in 0..MaxErrors, executing' = executing,
         UNCHANGED <<callers, durable, owner, results, cmd, net, continuing>>
  PROVE  RoutingInvariant'
<1>1. pc \in [Procs -> Steps] /\ reply \in [Procs -> Words]
  BY ExecutorFacts
<1>2. Stands(Answer(x)) => Stands(Answer(x))'
  BY DEF Stands, Answered, durable, Answer
<1>3. RoutingTypeOK'
  BY <1>1
     DEF RoutingInvariant, RoutingTypeOK, Steps, Words, Verdicts, ExecutingPcs,
         callers, durable, owner
<1>4. ExecutionsMatch'
  BY WithinExecution DEF Steps, ExecutingPcs
<1>5. RowMatches' /\ ResultsMatch'
  BY UnrecordedStep DEF durable
<1> QED BY <1>2, <1>3, <1>4, <1>5, ExecutingStep DEF durable

\* An execution that finds a persisted result replies with it.
LEMMA LoadStoredStep ==
  ASSUME RoutingInvariant, NEW x \in Procs, LoadStored(x)
  PROVE  RoutingInvariant'
<1>1. pc[x] \in ExecutingPcs /\ {"apply", "finish"} \subseteq ExecutingPcs \ {"persist"}
  BY DEF LoadStored, ExecutingPcs
<1>2. /\ reply[x] \in Verdicts /\ reply = [reply EXCEPT ![x] = reply[x]]
      /\ Control(x) \in Controls
  BY <1>1, ExecutorFacts
<1>3. inflight' \subseteq Servers /\ errors' \in 0..MaxErrors /\ executing' = executing
  BY DEF LoadStored, local, RoutingInvariant, RoutingTypeOK
<1>4. UNCHANGED <<callers, durable, owner, results, cmd, net, continuing>>
  BY DEF LoadStored
<1>5. CASE results[Control(x)] = NoAnswer
  <2>1. reply[x] # "applied"
    BY DEF LoadStored, RoutingInvariant, AppliedStands
  <2>2. pc' = [pc EXCEPT ![x] = "apply"] /\ reply' = [reply EXCEPT ![x] = reply[x]]
    BY <1>2, <1>5 DEF LoadStored, Goto
  <2> QED BY <1>1, <1>2, <1>3, <1>4, <2>1, <2>2, ReadingStep
<1>6. CASE results[Control(x)] # NoAnswer
  <2> DEFINE word == Verdict(Answer(x), results[Control(x)])
  <2>1. Stands(results[Control(x)])
    BY <1>2, <1>6 DEF RoutingInvariant, ResultsMatch
  <2>2. word \in Verdicts /\ (word = "applied" => Stands(Answer(x)))
    BY <2>1, VerdictStands DEF Verdicts
  <2>3. pc' = [pc EXCEPT ![x] = "finish"] /\ reply' = [reply EXCEPT ![x] = word]
    BY <1>6 DEF LoadStored, Replied, Goto
  <2> HIDE DEF word
  <2> QED BY <1>1, <1>3, <1>4, <2>2, <2>3, ReadingStep
<1> QED BY <1>5, <1>6

\* An execution goes on to the commit only on the owner, and alone in its handler.
LEMMA ApplyStep ==
  ASSUME RoutingInvariant, NEW x \in Procs, Apply(x)
  PROVE  RoutingInvariant'
<1>1. pc[x] \in ExecutingPcs /\ {"commit", "finish"} \subseteq ExecutingPcs \ {"persist"}
  BY DEF Apply, ExecutingPcs
<1>2. /\ reply[x] \in Verdicts /\ reply = [reply EXCEPT ![x] = reply[x]] /\ At(x) \in Servers
      /\ "failed" \in Verdicts
  BY <1>1, ExecutorFacts DEF Verdicts
<1>3. inflight' \subseteq Servers /\ errors' \in 0..MaxErrors /\ executing' = executing
  BY <1>2 DEF Apply, RoutingInvariant, RoutingTypeOK
<1>4. UNCHANGED <<callers, durable, owner, results, cmd, net, continuing>>
  BY DEF Apply
<1>5. CASE Owns(x) /\ At(x) \notin inflight
  <2>1. reply[x] # "applied"
    BY DEF Apply, RoutingInvariant, AppliedStands
  <2>2. pc' = [pc EXCEPT ![x] = "commit"] /\ reply' = [reply EXCEPT ![x] = reply[x]]
    BY <1>2, <1>5 DEF Apply, Goto
  <2> QED BY <1>1, <1>2, <1>3, <1>4, <2>1, <2>2, ReadingStep
<1>6. CASE ~(Owns(x) /\ At(x) \notin inflight)
  <2>1. pc' = [pc EXCEPT ![x] = "finish"] /\ reply' = [reply EXCEPT ![x] = "failed"]
    BY <1>6 DEF Apply, Replied, Goto
  <2> QED BY <1>1, <1>2, <1>3, <1>4, <2>1, ReadingStep
<1> QED BY <1>5, <1>6

\* A failing call ends the execution without a word about the row.
LEMMA ExecutionFailsStep ==
  ASSUME RoutingInvariant, NEW x \in Procs, ExecutionFails(x)
  PROVE  RoutingInvariant'
<1>1. pc[x] \in ExecutingPcs /\ "finish" \in ExecutingPcs \ {"persist"} /\ "failed" \in Verdicts
  BY DEF ExecutionFails, ExecutingPcs, Verdicts
<1>2. inflight' \subseteq Servers /\ errors' \in 0..MaxErrors /\ executing' = executing
  BY FailureCounted DEF ExecutionFails, local, RoutingInvariant, RoutingTypeOK
<1>3. pc' = [pc EXCEPT ![x] = "finish"] /\ reply' = [reply EXCEPT ![x] = "failed"]
  BY DEF ExecutionFails, Replied, Goto
<1>4. UNCHANGED <<callers, durable, owner, results, cmd, net, continuing>>
  BY DEF ExecutionFails
<1> QED BY <1>1, <1>2, <1>3, <1>4, ReadingStep

\* What could not be stored stands all the same.
LEMMA PersistFailsStep ==
  ASSUME RoutingInvariant, NEW x \in Procs, PersistFails(x)
  PROVE  RoutingInvariant'
<1>1. pc[x] \in ExecutingPcs /\ "finish" \in ExecutingPcs \ {"persist"}
  BY DEF PersistFails, ExecutingPcs
<1>2. reply[x] \in Verdicts /\ reply = [reply EXCEPT ![x] = reply[x]]
  BY <1>1, ExecutorFacts
<1>3. inflight' \subseteq Servers /\ errors' \in 0..MaxErrors /\ executing' = executing
  BY FailureCounted DEF PersistFails, local, RoutingInvariant, RoutingTypeOK
<1>4. pc' = [pc EXCEPT ![x] = "finish"] /\ reply' = [reply EXCEPT ![x] = reply[x]]
  BY <1>2 DEF PersistFails, Goto
<1>5. UNCHANGED <<callers, durable, owner, results, cmd, net, continuing>>
  BY DEF PersistFails
<1>6. reply[x] = "applied" => Stands(Answer(x))
  BY DEF RoutingInvariant, AppliedStands
<1> QED BY <1>1, <1>2, <1>3, <1>4, <1>5, <1>6, ReadingStep
-----------------------------------------------------------------------------
\* Recording an answer: the row was pending, so nothing else was said to stand.
LEMMA RecordingStep ==
  ASSUME RoutingInvariant, NEW x \in Procs, pc[x] = "commit",
         NEW to \in {"persist", "finish"}, pc' = [pc EXCEPT ![x] = to],
         NEW word \in Verdicts, reply' = [reply EXCEPT ![x] = word],
         to = "persist" \/ word = "applied" => row' = Recorded(x),
         row' = row \/ (row' = Recorded(x) /\ Pending),
         inflight' = inflight \ {At(x)}, errors' \in 0..MaxErrors,
         continuing' \subseteq 1..MaxToken,
         UNCHANGED <<callers, run, token, owner, results, cmd, executing, net>>
  PROVE  RoutingInvariant'
<1>1. pc[x] \in ExecutingPcs /\ to \in ExecutingPcs /\ to \in Steps /\ to # "follow"
  BY DEF ExecutingPcs, Steps
<1>2. /\ pc \in [Procs -> Steps] /\ reply \in [Procs -> Words]
      /\ Answer(x) \in Answers /\ Answer(x) # NoAnswer
  BY <1>1, ExecutorFacts
<1>3. row' = Recorded(x) => Stands(Answer(x))' /\ Answered'
  BY DEF Stands, Answered, Recorded, Answer
<1>4. row' = row \/ ~Answered
  BY DEF Answered, Pending
<1>5. RoutingTypeOK'
  <2>1. row' \in [status : {"pending", "answered", "cancelled"}, answer : Answers \cup {NoAnswer}]
    BY <1>2 DEF RoutingInvariant, RoutingTypeOK, Recorded, Answer
  <2>2. pc' \in [Procs -> Steps] /\ reply' \in [Procs -> Words]
    BY <1>1, <1>2 DEF Words, Verdicts
  <2> QED BY <2>1, <2>2 DEF RoutingInvariant, RoutingTypeOK, callers, owner
<1>6. ExecutionsMatch'
  BY <1>1, WithinExecution
<1>7. RowMatches'
  <2>1. CASE row' = row
    BY <2>1 DEF RoutingInvariant, RowMatches, Answered
  <2>2. CASE row' = Recorded(x)
    BY <2>2, <1>2, <1>3 DEF RowMatches, Recorded, Answer, Answered
  <2> QED BY <2>1, <2>2
<1>8. ResultsMatch'
  <2>1. \A answer : Stands(answer) => Stands(answer)'
    BY <1>4, StandingStays
  <2> QED BY <2>1 DEF RoutingInvariant, ResultsMatch
<1> QED BY <1>1, <1>3, <1>4, <1>5, <1>6, <1>7, <1>8, ExecutingStep

\* The one step that records an answer, and only while none is recorded.
LEMMA CommitStep ==
  ASSUME RoutingInvariant, NEW x \in Procs, Commit(x)
  PROVE  RoutingInvariant'
<1>1. pc[x] = "commit" /\ inflight' = inflight \ {At(x)} /\ {"applied", "failed"} \subseteq Verdicts
  BY DEF Commit, Verdicts
<1>2. errors' \in 0..MaxErrors /\ continuing' \subseteq 1..MaxToken
  BY DEF Commit, RoutingInvariant, RoutingTypeOK
<1>3. UNCHANGED <<callers, run, token, owner, results, cmd, executing, net>>
  BY DEF Commit
<1>4. CASE CommitApplies(x)
  <2>1. /\ row' = Recorded(x) /\ Pending
        /\ pc' = [pc EXCEPT ![x] = "persist"] /\ reply' = [reply EXCEPT ![x] = "applied"]
    BY <1>4 DEF Commit, CommitApplies, Replied, Goto
  <2> QED BY <1>1, <1>2, <1>3, <2>1, RecordingStep
<1>5. CASE ~CommitApplies(x)
  <2>1. /\ row' = row
        /\ pc' = [pc EXCEPT ![x] = "finish"] /\ reply' = [reply EXCEPT ![x] = "failed"]
    BY <1>5 DEF Commit, Replied, Goto
  <2> QED BY <1>1, <1>2, <1>3, <2>1, RecordingStep
<1> QED BY <1>4, <1>5

\* A commit that nobody hears of may be recorded: it is reported as a failure.
LEMMA CommitTimesOutStep ==
  ASSUME RoutingInvariant, NEW x \in Procs, CommitTimesOut(x)
  PROVE  RoutingInvariant'
<1>1. pc[x] = "commit" /\ inflight' = inflight \ {At(x)} /\ "failed" \in Verdicts
  BY DEF CommitTimesOut, Verdicts
<1>2. errors' \in 0..MaxErrors /\ continuing' \subseteq 1..MaxToken
  BY FailureCounted DEF CommitTimesOut, RoutingInvariant, RoutingTypeOK
<1>3. UNCHANGED <<callers, run, token, owner, results, cmd, executing, net>>
  BY DEF CommitTimesOut
<1>4. row' = row \/ (row' = Recorded(x) /\ Pending)
  BY DEF CommitTimesOut, CommitApplies
<1>5. pc' = [pc EXCEPT ![x] = "finish"] /\ reply' = [reply EXCEPT ![x] = "failed"]
  BY DEF CommitTimesOut, Replied, Goto
<1> QED BY <1>1, <1>2, <1>3, <1>4, <1>5, RecordingStep

\* What is stored under a control id is the answer that stands.
LEMMA PersistStep ==
  ASSUME RoutingInvariant, NEW x \in Procs, PersistResult(x)
  PROVE  RoutingInvariant'
<1>1. /\ pc[x] = "persist" /\ pc[x] \in ExecutingPcs /\ "finish" \in ExecutingPcs
  BY DEF PersistResult, ExecutingPcs
<1>2. /\ pc \in [Procs -> Steps] /\ reply \in [Procs -> Words] /\ Control(x) \in Controls
      /\ Answer(x) \in Answers /\ Answer(x) # NoAnswer /\ Control(x) = ControlOf[Answer(x)]
      /\ Stands(Answer(x)) /\ results \in [Controls -> Answers \cup {NoAnswer}]
  BY <1>1, ExecutorFacts DEF RoutingInvariant, AppliedStands, RoutingTypeOK
<1>3. results[Control(x)] # NoAnswer => results[Control(x)] = Answer(x)
  BY <1>2 DEF RoutingInvariant, ResultsMatch, Stands
<1>4. results' = [results EXCEPT ![Control(x)] = Answer(x)]
  BY <1>2, <1>3 DEF PersistResult
<1>5. pc' = [pc EXCEPT ![x] = "finish"] /\ reply' = [reply EXCEPT ![x] = "applied"]
  BY <1>2, <1>4 DEF PersistResult, Replied, Goto, Verdict
<1>6. UNCHANGED <<callers, durable, owner, cmd, local, net, continuing, errors>>
  BY DEF PersistResult
<1>7. \A answer : Stands(answer)' <=> Stands(answer)
  BY <1>6 DEF Stands, Answered, durable
<1>8. RoutingTypeOK'
  BY <1>2, <1>4, <1>5, <1>6
     DEF RoutingInvariant, RoutingTypeOK, Steps, Words, callers, durable, owner, local
<1>9. ExecutionsMatch'
  BY <1>1, <1>5, <1>6, WithinExecution DEF Steps, local
<1>10. RowMatches'
  BY <1>6 DEF RoutingInvariant, RowMatches, Answered, durable
<1>11. ResultsMatch'
  BY <1>2, <1>4, <1>7 DEF RoutingInvariant, ResultsMatch
<1>12. Stands(Answer(x))' /\ "applied" \in Verdicts /\ UNCHANGED <<callers, row, cmd, net>>
  BY <1>2, <1>6 DEF Stands, Answered, durable, Answer, Verdicts
<1> QED BY <1>1, <1>5, <1>8, <1>9, <1>10, <1>11, <1>12, ExecutingStep

\* An execution leaves its entry and wakes those who waited for it.
LEMMA FinishStep ==
  ASSUME RoutingInvariant, NEW x \in Procs, FinishExecution(x)
  PROVE  RoutingInvariant'
<1> USE CallsAreNotWorkers DEF RoutingInvariant
<1>1. pc[x] = "finish" /\ pc[x] \in ExecutingPcs
  BY DEF FinishExecution, ExecutingPcs
<1>2. Key(x) = <<At(x), Control(x)>>
  BY DEF Key
<1> DEFINE woken == {y \in Procs : y # x /\ pc[y] = "follow" /\ Key(y) = Key(x)}
<1>3. /\ executing' = executing \ {Key(x)}
      /\ UNCHANGED <<callers, durable, owner, results, cmd, reply, inflight, net, continuing, errors>>
  BY <1>2 DEF FinishExecution
<1>4. \A y \in Procs : pc'[y] = IF y = x THEN "reply"
                                ELSE IF y \in woken THEN "followed" ELSE pc[y]
  BY DEF FinishExecution, Key
<1>5. \A y \in Procs : Key(y)' = Key(y) /\ Answer(y)' = Answer(y) /\ At(y)' = At(y)
  BY <1>3 DEF Key, At, Control, Answer
<1>6. \A answer : (Stands(answer)' <=> Stands(answer)) /\ (Asked(answer)' <=> Asked(answer))
  BY <1>3 DEF Stands, Answered, durable, Asked, callers
<1>7. \A y \in woken : y \in Procs /\ pc[y] = "follow" /\ Key(y) = Key(x) /\ y # x
  OBVIOUS
<1>8. \A y \in Procs : y # x /\ Key(y) = Key(x) => pc[y] \notin ExecutingPcs
  BY <1>1 DEF ExecutionsMatch
<1>9. RoutingTypeOK'
  <2>1. pc' \in [Procs -> Steps]
    BY DEF FinishExecution, RoutingTypeOK, Steps
  <2> QED BY <1>3, <2>1 DEF RoutingTypeOK, callers, durable, owner
<1>10. ExecutionsMatch'
  <2> DEFINE was(y) == pc[y] \in ExecutingPcs
  <2>1. \A y \in Procs : pc'[y] \in ExecutingPcs => y # x /\ was(y) /\ Key(y) # Key(x)
    BY <1>4, <1>7, <1>8 DEF ExecutingPcs
  <2>2. \A y \in Procs : y # x /\ was(y) => pc'[y] \in ExecutingPcs
    BY <1>4, <1>7 DEF ExecutingPcs
  <2>3. \A y \in Procs : pc'[y] = "follow" => pc[y] = "follow" /\ Key(y) # Key(x)
    BY <1>4, <1>1
  <2> QED BY <1>3, <1>5, <2>1, <2>2, <2>3 DEF ExecutionsMatch
<1> HIDE DEF woken
<1>11. CallsMatch'
  BY <1>1, <1>3, <1>4, <1>7 DEF CallsMatch, AtRest, callers
<1>12. CommandsMatch'
  <2>1. \A y \in Procs : (pc'[y] \in AtRest <=> pc[y] \in AtRest)
                         /\ (pc'[y] \in CallerPcs \cup {"told"} => pc'[y] = pc[y])
                         /\ (pc'[y] = "wait" => pc[y] = "wait")
                         /\ (pc'[y] = "idle" <=> pc[y] = "idle")
    BY <1>1, <1>4, <1>7 DEF AtRest, CallerPcs
  <2>2. \A w \in Workers : w \in Procs
    BY DEF Procs
  <2> QED BY <1>3, <1>5, <1>6, <2>1, <2>2 DEF CommandsMatch
<1>13. NetMatches' /\ RowMatches' /\ ResultsMatch'
  BY <1>3, <1>6 DEF NetMatches, RowMatches, ResultsMatch, Answered, durable
<1>14. AppliedStands'
  <2>1. \A y \in woken : reply[y] # "applied"
    BY <1>7 DEF AppliedStands
  <2> QED BY <2>1, <1>1, <1>3, <1>4, <1>5, <1>6 DEF AppliedStands, callers
<1>15. RepeatsStand'
  <2>1. \A a \in repeats : a # x /\ a \notin woken /\ a \in Procs
    BY <1>1, <1>7 DEF RepeatsStand, RoutingTypeOK
  <2> QED BY <2>1, <1>3, <1>4, <1>6 DEF RepeatsStand, callers
<1> QED BY <1>9, <1>10, <1>11, <1>12, <1>13, <1>14, <1>15

\* A worker publishes its result and is free again.
LEMMA PublishStep ==
  ASSUME RoutingInvariant, NEW w \in Workers, PublishResult(w)
  PROVE  RoutingInvariant'
<1> USE CallsAreNotWorkers DEF RoutingInvariant, durable, owner, local, callers
<1>1. /\ w \in Procs /\ pc[w] = "reply" /\ pc \in [Procs -> Steps] /\ reply \in [Procs -> Words]
      /\ cmd \in [Procs -> CommandType]
  BY DEF PublishResult, Procs, RoutingTypeOK, CommandsMatch
<1>2. /\ Asked(Answer(w)) /\ Answer(w) \in Answers /\ cmd[w].peer \in Servers
      /\ reply[w] \in Verdicts /\ (reply[w] = "applied" => Stands(Answer(w)))
  BY <1>1 DEF CommandsMatch, AtRest, AppliedStands
<1> DEFINE m == [to |-> cmd[w].peer, type |-> "result", answer |-> cmd[w].answer,
                 word |-> reply[w]]
<1>3. m \in ResultType /\ m.answer = Answer(w) /\ m.word = reply[w] /\ m.type = "result"
  BY <1>2 DEF ResultType, Answer
<1> HIDE DEF m
<1>4. /\ net' = net \cup {m} /\ cmd' = [cmd EXCEPT ![w] = NoCmd]
      /\ reply' = [reply EXCEPT ![w] = "failed"] /\ pc' = [pc EXCEPT ![w] = "idle"]
      /\ UNCHANGED <<callers, durable, owner, results, local, continuing, errors>>
  BY DEF PublishResult, Goto, m
<1>5. /\ \A y \in Procs : y # w => pc'[y] = pc[y] /\ reply'[y] = reply[y] /\ cmd'[y] = cmd[y]
      /\ pc'[w] = "idle" /\ reply'[w] = "failed" /\ cmd'[w] = NoCmd
  BY <1>1, <1>4
<1>6. \A x : (Asked(x)' <=> Asked(x)) /\ (Stands(x)' <=> Stands(x))
  BY <1>4 DEF Asked, Stands, Answered
<1>7. \A a \in Attempts : a # w /\ a \in Procs
  OBVIOUS
<1>8. RoutingTypeOK'
  BY <1>1, <1>4 DEF RoutingTypeOK, Steps, Words
<1>9. CallsMatch'
  BY <1>4, <1>5, <1>7 DEF CallsMatch
<1>10. CommandsMatch'
  <2>1. cmd' \in [Procs -> CommandType]
    <3>1. NoCmd \in CommandType
      BY RoutingAssumption DEF NoCmd, CommandType
    <3> QED BY <1>1, <1>4, <3>1
  <2>2. \A y \in Workers : y \in Procs
    BY DEF Procs
  <2> QED BY <1>5, <1>6, <2>1, <2>2
          DEF CommandsMatch, AtRest, CallerPcs, At, Answer, Key, Control
<1>11. NetMatches' /\ RowMatches' /\ ResultsMatch'
  BY <1>2, <1>3, <1>4, <1>6 DEF NetMatches, RowMatches, ResultsMatch, Answered
<1>12. ExecutionsMatch'
  BY <1>1, <1>4, <1>5, ExecutionsStay DEF ExecutingPcs
<1>13. AppliedStands'
  BY <1>2, <1>3, <1>4, <1>5, <1>6 DEF AppliedStands, Answer, Verdicts
<1>14. RepeatsStand'
  BY <1>4, <1>5, <1>6, <1>7 DEF RepeatsStand, RoutingTypeOK
<1> QED BY <1>8, <1>9, <1>10, <1>11, <1>12, <1>13, <1>14
-----------------------------------------------------------------------------
\* The run, its reservation and its control move: no answer is touched.
LEMMA RunMoves ==
  ASSUME RoutingInvariant,
         \/ \E t \in 1..MaxToken : Continue(t)
         \/ RunEnds \/ AbortEnds \/ LeaseLost \/ Reclaim \/ Condemn
         \/ \E s \in Servers : Rereserve(s)
  PROVE  RoutingInvariant'
<1>1. UNCHANGED <<callers, row, results, pc, cmd, reply, executing, inflight, net>>
  BY DEF Continue, RunEnds, AbortEnds, LeaseLost, Reclaim, Condemn, Rereserve, durable, owner, local
<1>2. RoutingTypeOK'
  <2> USE RoutingAssumption DEF RoutingInvariant, RoutingTypeOK, callers, durable, owner, local
  <2>1. ASSUME NEW t \in 1..MaxToken, Continue(t) PROVE RoutingTypeOK'
    BY <2>1, <1>1 DEF Continue
  <2>2. CASE RunEnds \/ AbortEnds
    <3>1. run' = "ended" /\ ref' = NoRef /\ held' = [s \in Servers |-> 0]
      BY <2>2 DEF RunEnds, AbortEnds
    <3>2. UNCHANGED <<token, continuing, errors>>
      BY <2>2 DEF RunEnds, AbortEnds
    <3> QED BY <1>1, <3>1, <3>2
  <2>3. CASE LeaseLost
    BY <2>3, <1>1 DEF LeaseLost, Fails
  <2>4. CASE Reclaim
    BY <2>4, <1>1 DEF Reclaim
  <2>5. CASE Condemn
    BY <2>5, <1>1 DEF Condemn
  <2>6. ASSUME NEW s \in Servers, Rereserve(s) PROVE RoutingTypeOK'
    BY <2>6, <1>1 DEF Rereserve
  <2> QED BY <2>1, <2>2, <2>3, <2>4, <2>5, <2>6
<1>3. RowMatches' /\ ResultsMatch'
  BY <1>1, UnrecordedStep
<1> QED BY <1>1, <1>2, <1>3, OwnerSideStep

\* A decision nobody answered is withdrawn: nothing stood.
LEMMA SupersedeStep ==
  ASSUME RoutingInvariant, Supersede
  PROVE  RoutingInvariant'
<1>1. UNCHANGED <<callers, results, pc, cmd, reply, executing, inflight, net>> /\ Pending
  BY DEF Supersede, local
<1>2. row' = [row EXCEPT !.status = "cancelled"] /\ row.status = "pending"
  BY DEF Supersede, Pending
<1>3. RoutingTypeOK'
  BY <1>2 DEF Supersede, RoutingInvariant, RoutingTypeOK, callers, owner, local
<1>4. row'.status = "cancelled" /\ row'.answer = row.answer
  BY <1>2 DEF RoutingInvariant, RoutingTypeOK
<1>5. ~Answered /\ ~Answered' /\ (row' = row \/ ~Answered)
  BY <1>2, <1>4 DEF Answered
<1>6. RowMatches' /\ ResultsMatch'
  <2>1. \A c \in Controls : results[c] = NoAnswer
    BY <1>5 DEF RoutingInvariant, ResultsMatch, Stands
  <2>2. row.answer = NoAnswer
    BY <1>5 DEF RoutingInvariant, RowMatches
  <2> QED BY <1>1, <1>4, <2>1, <2>2 DEF RowMatches, ResultsMatch, Stands, Answered
<1> QED BY <1>1, <1>3, <1>5, <1>6, OwnerSideStep

\* A result that expires is one nobody can be told any more.
LEMMA ExpiryStep ==
  ASSUME RoutingInvariant, NEW c \in Controls, ResultExpires(c)
  PROVE  RoutingInvariant'
<1>1. UNCHANGED <<callers, row, pc, cmd, reply, executing, net>>
  BY DEF ResultExpires, durable, local
<1>2. results' = [results EXCEPT ![c] = NoAnswer]
  BY DEF ResultExpires
<1>3. RoutingTypeOK'
  BY <1>2 DEF ResultExpires, RoutingInvariant, RoutingTypeOK, callers, durable, owner, local
<1>4. RowMatches' /\ ResultsMatch'
  BY <1>1, <1>2 DEF RoutingInvariant, RoutingTypeOK, RowMatches, ResultsMatch, Stands, Answered
<1> QED BY <1>1, <1>3, <1>4, OwnerSideStep

\* A server that dies takes its processes and its executions along, and says nothing.
LEMMA CrashStep ==
  ASSUME RoutingInvariant, NEW s \in Servers, Crash(s)
  PROVE  RoutingInvariant'
<1> USE CallsAreNotWorkers DEF RoutingInvariant
<1> DEFINE here == {x \in Procs : At(x) = s /\ pc[x] \notin {"idle", "told"}}
<1>1. /\ told' = [a \in Attempts |-> IF a \in here THEN "failed" ELSE told[a]]
      /\ pc' = [x \in Procs |-> IF x \notin here THEN pc[x]
                                ELSE IF x \in Attempts THEN "told" ELSE "idle"]
      /\ cmd' = [x \in Procs |-> IF x \in here THEN NoCmd ELSE cmd[x]]
      /\ reply' = [x \in Procs |-> IF x \in here THEN "failed" ELSE reply[x]]
      /\ executing' = {e \in executing : e[1] # s}
      /\ net' = {m \in net : m.to # s}
      /\ UNCHANGED <<ask, repeats, durable, ref, results>>
  BY DEF Crash
<1>2. \A x \in here : x \in Procs /\ At(x) = s /\ pc[x] \notin AtRest
  BY DEF AtRest
<1>3. \A x \in Procs : pc[x] \notin AtRest /\ x \notin here => At(x) # s
  BY DEF AtRest
<1> HIDE DEF here
<1>4. /\ \A x \in Procs : x \notin here =>
             pc'[x] = pc[x] /\ cmd'[x] = cmd[x] /\ reply'[x] = reply[x]
      /\ \A x \in here : /\ cmd'[x] = NoCmd /\ reply'[x] = "failed"
                         /\ pc'[x] = IF x \in Attempts THEN "told" ELSE "idle"
      /\ \A a \in Attempts : told'[a] = IF a \in here THEN "failed" ELSE told[a]
      /\ \A w \in Workers : w \in Procs /\ w \notin Attempts
  BY <1>1, <1>2 DEF Procs
<1>5. \A x : (Asked(x)' <=> Asked(x)) /\ (Stands(x)' <=> Stands(x))
  BY <1>1 DEF Asked, Stands, Answered, durable
<1>6. RoutingTypeOK'
  <2>1. told' \in [Attempts -> Words] /\ pc' \in [Procs -> Steps] /\ reply' \in [Procs -> Words]
    BY <1>1 DEF RoutingTypeOK, Words, Steps
  <2>2. errors' \in 0..MaxErrors
    BY FailureCounted DEF Crash
  <2>3. /\ inflight' \subseteq Servers /\ continuing' \subseteq 1..MaxToken
        /\ held' \in [Servers -> 0..MaxToken]
    <3>1. inflight' = inflight \ {s} /\ held' = [held EXCEPT ![s] = 0]
      BY DEF Crash
    <3>2. continuing' \subseteq continuing
      BY DEF Crash
    <3> QED BY <3>1, <3>2, RoutingAssumption DEF RoutingTypeOK
  <2> QED BY <1>1, <2>1, <2>2, <2>3 DEF RoutingTypeOK, durable
<1>7. CallsMatch'
  BY <1>1, <1>2, <1>4 DEF CallsMatch, AtRest
<1>8. CommandsMatch'
  <2>1. cmd' \in [Procs -> CommandType]
    <3>1. NoCmd \in CommandType
      BY RoutingAssumption DEF NoCmd, CommandType
    <3> QED BY <1>1, <3>1 DEF CommandsMatch
  <2> QED BY <2>1, <1>4, <1>5 DEF CommandsMatch, AtRest, CallerPcs, At, Answer, Key, Control
<1>9. NetMatches' /\ RowMatches' /\ ResultsMatch'
  BY <1>1, <1>5 DEF NetMatches, RowMatches, ResultsMatch, Answered, durable
<1>10. ExecutionsMatch'
  <2>1. \A x \in Procs : x \notin here => Key(x)' = Key(x)
    BY <1>4 DEF Key, At, Control
  <2>2. \A x \in Procs : pc'[x] \in ExecutingPcs \cup {"follow"} =>
          x \notin here /\ pc'[x] = pc[x] /\ Key(x)[1] # s
    BY <1>3, <1>4 DEF ExecutingPcs, AtRest, Key
  <2>3. \A x \in Procs : x \in here => Key(x)[1] = s
    BY <1>2 DEF Key
  <2> QED BY <1>1, <1>4, <2>1, <2>2, <2>3 DEF ExecutionsMatch
<1>11. AppliedStands'
  BY <1>1, <1>4, <1>5 DEF AppliedStands, Answer, Verdicts
<1>12. RepeatsStand'
  BY <1>1, <1>4, <1>5 DEF RepeatsStand, RoutingTypeOK
<1> QED BY <1>6, <1>7, <1>8, <1>9, <1>10, <1>11, <1>12
-----------------------------------------------------------------------------
\* Every step of a process keeps the invariant.
LEMMA ExecuteStep ==
  ASSUME RoutingInvariant, NEW x \in Procs, Execute(x)
  PROVE  RoutingInvariant'
BY BeginStep, FollowedStep, LoadStoredStep, ApplyStep, ExecutionFailsStep, CommitStep,
   CommitTimesOutStep, PersistStep, PersistFailsStep, FinishStep DEF Execute

\* The steps of a call, whichever server it entered at.
LEMMA CallStep ==
  ASSUME RoutingInvariant, NEW a \in Attempts, AttemptStep(a) \/ Republish(a)
  PROVE  RoutingInvariant'
BY LookupStep, ResolveStep, GetRunStep, LoadRefStep, GivingUpStep, PollStep, RepublishStep,
   ReplyLocalStep, ExecuteStep, CallsAreNotWorkers DEF AttemptStep

\* The invariant is kept by every step of the route.
LEMMA StepKeeps == RoutingInvariant /\ [RoutingNext]_routingVars => RoutingInvariant'
<1> SUFFICES ASSUME RoutingInvariant, [RoutingNext]_routingVars PROVE RoutingInvariant'
  OBVIOUS
<1>1. ASSUME NEW a \in Attempts, NEW s \in Servers, NEW answer \in Answers, Submit(a, s, answer)
      PROVE  RoutingInvariant'
  BY <1>1, SubmitStep
<1>2. ASSUME NEW a \in Attempts, AttemptStep(a) \/ Republish(a) PROVE RoutingInvariant'
  BY <1>2, CallStep
<1>3. ASSUME NEW w \in Workers, WorkerStep(w) PROVE RoutingInvariant'
  BY <1>3, ExecuteStep, PublishStep DEF WorkerStep, Procs
<1>4. ASSUME NEW m \in net, DeliverCommand(m) \/ DeliverResult(m) PROVE RoutingInvariant'
  BY <1>4, DeliverCommandStep, DeliverResultStep
<1>5. CASE OwnerStep \/ RunEnds \/ AbortEnds \/ LeaseLost \/ Reclaim
  BY <1>5, RunMoves DEF OwnerStep
<1>6. CASE Supersede
  BY <1>6, SupersedeStep
<1>7. ASSUME NEW s \in Servers, Rereserve(s) \/ Crash(s) PROVE RoutingInvariant'
  BY <1>7, RunMoves, CrashStep
<1>8. ASSUME NEW c \in Controls, ResultExpires(c) PROVE RoutingInvariant'
  BY <1>8, ExpiryStep
<1>9. CASE UNCHANGED routingVars
  <2>1. UNCHANGED <<callers, row, results, pc, cmd, reply, executing, net>>
    BY <1>9 DEF routingVars, durable, local
  <2>2. RoutingTypeOK'
    BY <1>9 DEF RoutingInvariant, RoutingTypeOK, routingVars, callers, durable, owner, local
  <2> QED BY <2>1, <2>2, UnrecordedStep, OwnerSideStep
<1> QED BY <1>1, <1>2, <1>3, <1>4, <1>5, <1>6, <1>7, <1>8, <1>9 DEF RoutingNext

\* The parts of the route agree in every state it reaches, whatever is lost.
THEOREM RouteIsInvariant == RoutingSpec => []RoutingInvariant
<1>1. RoutingInit => RoutingInvariant
  BY InitEstablishes
<1>2. RoutingInvariant /\ [RoutingNext]_routingVars => RoutingInvariant'
  BY StepKeeps
<1> QED BY <1>1, <1>2, PTL DEF RoutingSpec

\* At most one process of a server executes a control id, and a process that waits for
\* an execution waits for one that is under way: commandExecutions, for any deployment.
THEOREM OneExecutionAtATime == RoutingSpec => []OneExecution
<1>1. RoutingInvariant => OneExecution
  <2> SUFFICES ASSUME RoutingInvariant, NEW s \in Servers, NEW c \in Controls
               PROVE  LET here == {x \in Procs : pc[x] # "idle" /\ At(x) = s /\ Control(x) = c} IN
                      /\ \A x, y \in here :
                           pc[x] \in ExecutingPcs /\ pc[y] \in ExecutingPcs => x = y
                      /\ (\E x \in here : pc[x] = "follow") =>
                           \E x \in here : pc[x] \in ExecutingPcs
    BY DEF OneExecution
  <2> DEFINE here == {x \in Procs : pc[x] # "idle" /\ At(x) = s /\ Control(x) = c}
  <2>1. \A x \in here : x \in Procs /\ Key(x) = <<s, c>>
    BY DEF Key
  <2>2. \A x, y \in here : pc[x] \in ExecutingPcs /\ pc[y] \in ExecutingPcs => x = y
    BY <2>1 DEF RoutingInvariant, ExecutionsMatch
  <2>3. ASSUME NEW x \in here, pc[x] = "follow" PROVE \E y \in here : pc[y] \in ExecutingPcs
    <3>1. <<s, c>> \in executing
      BY <2>1, <2>3 DEF RoutingInvariant, ExecutionsMatch
    <3>2. PICK y \in Procs : pc[y] \in ExecutingPcs /\ Key(y) = <<s, c>>
      BY <3>1 DEF RoutingInvariant, ExecutionsMatch
    <3>3. At(y) = s /\ Control(y) = c /\ pc[y] # "idle"
      BY <3>2 DEF Key, ExecutingPcs
    <3> QED BY <3>2, <3>3
  <2> QED BY <2>2, <2>3
<1> QED BY <1>1, RouteIsInvariant, PTL
-----------------------------------------------------------------------------
(* The contract: its outcome is the row, as a caller may know it. *)

outcomeBar == IF row.status = "cancelled" THEN Closed ELSE row.answer

\* As long as nothing was withdrawn, what a row without an answer stands for is no answer.
LEMMA OutcomeOfRow ==
  ASSUME RoutingInvariant
  PROVE  /\ Pending => outcomeBar = NoAnswer
         /\ \A answer : Stands(answer) => outcomeBar = answer
BY DEF outcomeBar, Pending, Stands, Answered, RoutingInvariant, RowMatches

\* Telling some calls what the route may tell them is a step of the contract.
LEMMA TellImplemented ==
  ASSUME RoutingInvariant, told' \in [Attempts -> Words],
         \A a \in Attempts : told'[a] # told[a] =>
           /\ pc[a] \notin AtRest
           /\ told'[a] = "applied" => Stands(ask[a])
           /\ told'[a] \in {"refused", "conflict"} => a \notin repeats,
         UNCHANGED <<row, ask, repeats>>
  PROVE  [Contract!ContractNext]_(Contract!contractVars)
<1>1. outcomeBar' = outcomeBar
  BY DEF outcomeBar
<1>2. CASE told' = told
  BY <1>1, <1>2 DEF Contract!contractVars, outcomeBar
<1>3. CASE told' # told
  <2>1. \A a \in Attempts : pc[a] \notin AtRest => ask[a] # NoAnswer /\ told[a] = "nothing"
    BY DEF RoutingInvariant, CallsMatch, AtRest
  <2>2. \A a \in Attempts : told'[a] # told[a] =>
          /\ ask[a] # NoAnswer /\ told[a] = "nothing"
          /\ told'[a] = "applied" => outcomeBar = ask[a]
          /\ told'[a] \in Contract!Refusals => a \notin repeats
    BY <2>1, OutcomeOfRow DEF Contract!Refusals
  <2>3. told' \in [Attempts -> Contract!Words]
    BY DEF Words, Contract!Words, Contract!Refusals
  <2>4. Contract!Tell
    BY <1>1, <1>3, <2>2, <2>3 DEF Contract!Tell, outcomeBar
  <2> QED BY <2>4 DEF Contract!ContractNext
<1> QED BY <1>2, <1>3

\* One call is told a word.
LEMMA ToldImplemented ==
  ASSUME RoutingInvariant, NEW a \in Attempts, NEW word \in Words, Told(a, word),
         pc[a] \notin AtRest, word = "applied" => Stands(ask[a]),
         word \in {"refused", "conflict"} => a \notin repeats, row' = row
  PROVE  [Contract!ContractNext]_(Contract!contractVars)
<1>1. told' = [told EXCEPT ![a] = word] /\ UNCHANGED <<ask, repeats>>
  BY DEF Told
<1>2. told' \in [Attempts -> Words] /\ \A b \in Attempts : told'[b] # told[b] => b = a
  BY <1>1 DEF RoutingInvariant, RoutingTypeOK
<1>3. told'[a] # told[a] => told'[a] = word
  BY <1>1 DEF RoutingInvariant, RoutingTypeOK
<1> QED BY <1>1, <1>2, <1>3, TellImplemented

\* A verdict over what stands is no refusal of a repeat.
LEMMA VerdictOfRepeat ==
  ASSUME RoutingInvariant, NEW a \in Attempts, pc[a] \notin AtRest, NEW stored, Stands(stored)
  PROVE  LET word == Verdict(Answer(a), stored) IN
         /\ word \in Words /\ (word = "applied" => Stands(ask[a]))
         /\ word \in {"refused", "conflict"} => a \notin repeats
BY DEF RoutingInvariant, CallsMatch, RepeatsStand, Stands, Verdict, Words, Answer

\* A result that was persisted tells what the contract allows to be told.
LEMMA LookupImplements ==
  ASSUME RoutingInvariant, NEW a \in Attempts, Lookup(a) \/ PollResult(a)
  PROVE  [Contract!ContractNext]_(Contract!contractVars)
<1>1. pc[a] \notin AtRest /\ row' = row
  BY DEF Lookup, PollResult, AtRest, durable
<1>2. Control(a) \in Controls
  BY <1>1, CallsAreNotWorkers, KeyOfProcess
<1>3. CASE results[Control(a)] = NoAnswer
  BY <1>1, <1>3 DEF Lookup, PollResult, callers, Contract!contractVars
<1>4. CASE results[Control(a)] # NoAnswer
  <2>1. Stands(results[Control(a)])
    BY <1>2, <1>4 DEF RoutingInvariant, ResultsMatch
  <2>2. Told(a, Verdict(Answer(a), results[Control(a)]))
    BY <1>4 DEF Lookup, PollResult
  <2> QED BY <1>1, <2>1, <2>2, VerdictOfRepeat, ToldImplemented
<1> QED BY <1>3, <1>4

\* An attempt that finds its row answered by itself is told so; what another control
\* answered cannot be a repeat's.
LEMMA ResolveImplements ==
  ASSUME RoutingInvariant, NEW a \in Attempts, ResolveDecision(a)
  PROVE  [Contract!ContractNext]_(Contract!contractVars)
<1>1. pc[a] \notin AtRest /\ row' = row /\ Answer(a) = ask[a]
  BY DEF ResolveDecision, AtRest, durable, RoutingInvariant, CallsMatch, Answer
<1>2. CASE Answered /\ Told(a, Verdict(Answer(a), row.answer))
  <2>1. Stands(row.answer)
    BY <1>2 DEF Stands
  <2> QED BY <1>1, <1>2, <2>1, VerdictOfRepeat, ToldImplemented
<1>3. CASE ~(Answered /\ ControlOf[row.answer] = Control(a)) /\ Told(a, "refused")
  <2>1. a \notin repeats
    BY <1>1, <1>3 DEF RoutingInvariant, RepeatsStand, Stands, Control, Answer
  <2> QED BY <1>1, <1>3, <2>1, ToldImplemented DEF Words
<1>4. CASE UNCHANGED callers
  BY <1>1, <1>4 DEF callers, Contract!contractVars
<1> QED BY <1>2, <1>3, <1>4 DEF ResolveDecision

\* Only what has gone past the row can be refused by the run.
LEMMA GetRunImplements ==
  ASSUME RoutingInvariant, NEW a \in Attempts, GetRun(a) \/ LoadRef(a)
  PROVE  [Contract!ContractNext]_(Contract!contractVars)
<1>1. pc[a] \notin AtRest /\ row' = row /\ a \notin repeats
  BY DEF GetRun, LoadRef, AtRest, durable, RoutingInvariant, RepeatsStand
<1>2. CASE Told(a, "failed") \/ Told(a, "refused")
  BY <1>1, <1>2, ToldImplemented DEF Words
<1>3. CASE UNCHANGED callers
  BY <1>1, <1>3 DEF callers, Contract!contractVars
<1> QED BY <1>2, <1>3 DEF GetRun, LoadRef

\* A call that fails promises nothing.
LEMMA GivingUpImplements ==
  ASSUME RoutingInvariant, NEW a \in Attempts,
         LookupFails(a) \/ WaitTimesOut(a) \/ FollowerGivesUp(a)
  PROVE  [Contract!ContractNext]_(Contract!contractVars)
<1>1. pc[a] \notin AtRest /\ row' = row /\ Told(a, "failed")
  BY DEF LookupFails, WaitTimesOut, FollowerGivesUp, AtRest, durable
<1> QED BY <1>1, ToldImplemented DEF Words

\* The reply of a local execution is what the contract allows to be told.
LEMMA ReplyImplements ==
  ASSUME RoutingInvariant, NEW a \in Attempts, ReplyLocal(a)
  PROVE  [Contract!ContractNext]_(Contract!contractVars)
<1>1. /\ pc[a] = "reply" /\ pc[a] \notin AtRest /\ row' = row /\ Told(a, reply[a])
      /\ a \in Procs
  BY CallsAreNotWorkers DEF ReplyLocal, AtRest, durable
<1>2. a \notin repeats
  BY <1>1 DEF RoutingInvariant, RepeatsStand
<1>3. reply[a] \in Words /\ (reply[a] = "applied" => Stands(ask[a]))
  BY <1>1 DEF RoutingInvariant, RoutingTypeOK, AppliedStands, CallsMatch, Answer
<1> QED BY <1>1, <1>2, <1>3, ToldImplemented

\* A published result tells all calls that wait for it in one step.
LEMMA DeliverResultImplements ==
  ASSUME RoutingInvariant, NEW m \in net, DeliverResult(m)
  PROVE  [Contract!ContractNext]_(Contract!contractVars)
<1> DEFINE waiters == {a \in Attempts : pc[a] = "wait" /\ At(a) = m.to
                                        /\ Control(a) = ControlOf[m.answer]}
<1>1. /\ told' = [a \in Attempts |-> IF a \notin waiters THEN told[a]
                                     ELSE IF Answer(a) # m.answer THEN "conflict" ELSE m.word]
      /\ UNCHANGED <<row, ask, repeats>>
  BY DEF DeliverResult, durable
<1>2. m.word \in Verdicts /\ (m.word = "applied" => Stands(m.answer))
  BY DEF DeliverResult, RoutingInvariant, NetMatches, RequestType, ResultType, AppliedStands
<1>3. \A a \in waiters : /\ a \in Attempts /\ pc[a] \notin AtRest /\ a \notin repeats
                         /\ Answer(a) = ask[a]
  BY DEF AtRest, RoutingInvariant, RepeatsStand, CallsMatch, Answer
<1> HIDE DEF waiters
<1>4. told' \in [Attempts -> Words]
  BY <1>1, <1>2 DEF RoutingInvariant, RoutingTypeOK, Words, Verdicts
<1>5. \A a \in Attempts : told'[a] # told[a] =>
        a \in waiters /\ (told'[a] = "applied" => Stands(ask[a]))
  BY <1>1, <1>2, <1>3
<1> QED BY <1>1, <1>3, <1>4, <1>5, TellImplemented

\* The calls of a server that dies fail together.
LEMMA CrashImplements ==
  ASSUME RoutingInvariant, NEW s \in Servers, Crash(s)
  PROVE  [Contract!ContractNext]_(Contract!contractVars)
<1> DEFINE here == {x \in Procs : At(x) = s /\ pc[x] \notin {"idle", "told"}}
<1>1. /\ told' = [a \in Attempts |-> IF a \in here THEN "failed" ELSE told[a]]
      /\ UNCHANGED <<row, ask, repeats>>
  BY DEF Crash, durable
<1>2. \A x \in here : pc[x] \notin AtRest
  BY DEF AtRest
<1> HIDE DEF here
<1>3. told' \in [Attempts -> Words]
  BY <1>1 DEF RoutingInvariant, RoutingTypeOK, Words
<1> QED BY <1>1, <1>2, <1>3, TellImplemented

\* A submission is a call of the contract, and counts as a repeat there, too.
LEMMA SubmitImplements ==
  ASSUME RoutingInvariant, NEW a \in Attempts, NEW s \in Servers, NEW answer \in Answers,
         Submit(a, s, answer)
  PROVE  Contract!ContractNext
<1>1. ask[a] = NoAnswer
  BY DEF Submit, RoutingInvariant, CallsMatch
<1>2. Contract!Ask(a, answer)
  BY <1>1 DEF Submit, durable, Contract!Ask, Contract!Acknowledged
<1> QED BY <1>2 DEF Contract!ContractNext

\* The row is written for a command, and a command is about an answer somebody gave.
LEMMA RecordingImplements ==
  ASSUME RoutingInvariant, NEW x \in Procs, pc[x] = "commit",
         row' = row \/ (row' = Recorded(x) /\ Pending), UNCHANGED callers
  PROVE  [Contract!ContractNext]_(Contract!contractVars)
<1>1. CASE row' = row
  BY <1>1 DEF callers, Contract!contractVars
<1>2. CASE row' = Recorded(x) /\ Pending
  <2>1. PICK a \in Attempts : ask[a] = Answer(x)
    BY DEF RoutingInvariant, CallsMatch, CommandsMatch, AtRest, Procs, Asked, Answer
  <2>2. Answer(x) \in Answers /\ Answer(x) # NoAnswer
    BY ExecutorFacts DEF ExecutingPcs
  <2>3. outcomeBar' = ask[a] /\ outcomeBar = NoAnswer
    BY <1>2, <2>1, OutcomeOfRow DEF outcomeBar, Recorded, Answer
  <2>4. Contract!Decide(a)
    BY <2>1, <2>2, <2>3 DEF Contract!Decide, outcomeBar, callers
  <2> QED BY <2>4 DEF Contract!ContractNext
<1> QED BY <1>1, <1>2

\* Of an execution only the commit is seen: it decides.
LEMMA ExecuteImplements ==
  ASSUME RoutingInvariant, NEW x \in Procs, Execute(x)
  PROVE  [Contract!ContractNext]_(Contract!contractVars)
<1>1. CASE Commit(x) \/ CommitTimesOut(x)
  <2>1. pc[x] = "commit" /\ (row' = row \/ (row' = Recorded(x) /\ Pending)) /\ UNCHANGED callers
    BY <1>1 DEF Commit, CommitTimesOut, CommitApplies
  <2> QED BY <2>1, RecordingImplements
<1>2. CASE UNCHANGED <<callers, row>>
  BY <1>2 DEF callers, Contract!contractVars
<1>3. Commit(x) \/ CommitTimesOut(x) \/ UNCHANGED <<callers, row>>
  BY DEF Execute, BeginExecution, Followed, LoadStored, Apply, ExecutionFails, PersistResult,
         PersistFails, FinishExecution, durable
<1> QED BY <1>1, <1>2, <1>3

\* A decision is withdrawn once its run has ended.
LEMMA SupersedeImplements ==
  ASSUME RoutingInvariant, Supersede
  PROVE  [Contract!ContractNext]_(Contract!contractVars)
<1>1. row' = [row EXCEPT !.status = "cancelled"] /\ UNCHANGED callers /\ Pending
  BY DEF Supersede
<1>2. outcomeBar = NoAnswer /\ outcomeBar' = Closed
  BY <1>1, OutcomeOfRow DEF outcomeBar, RoutingInvariant, RoutingTypeOK
<1>3. Contract!Withdraw
  BY <1>1, <1>2 DEF Contract!Withdraw, outcomeBar, callers
<1> QED BY <1>3 DEF Contract!ContractNext

\* Every step of the route is a step of the contract, or none of its business.
LEMMA StepImplements ==
  RoutingInvariant /\ [RoutingNext]_routingVars
    => [Contract!ContractNext]_(Contract!contractVars)
<1> SUFFICES ASSUME RoutingInvariant, [RoutingNext]_routingVars
             PROVE  [Contract!ContractNext]_(Contract!contractVars)
  OBVIOUS
<1>1. CASE UNCHANGED <<callers, row>>
  BY <1>1 DEF callers, Contract!contractVars
<1>2. ASSUME NEW a \in Attempts, AttemptStep(a) \/ Republish(a)
      PROVE  [Contract!ContractNext]_(Contract!contractVars)
  <2>1. Republish(a) => UNCHANGED <<callers, row>>
    BY DEF Republish, durable
  <2> QED BY <1>1, <1>2, <2>1, CallsAreNotWorkers, LookupImplements, ResolveImplements,
             GetRunImplements, GivingUpImplements, ReplyImplements, ExecuteImplements
          DEF AttemptStep
<1>3. ASSUME NEW w \in Workers, WorkerStep(w)
      PROVE  [Contract!ContractNext]_(Contract!contractVars)
  <2>1. PublishResult(w) => UNCHANGED <<callers, row>>
    BY DEF PublishResult, durable
  <2> QED BY <1>1, <1>3, <2>1, ExecuteImplements DEF WorkerStep, Procs
<1>4. ASSUME NEW m \in net, DeliverCommand(m) \/ DeliverResult(m)
      PROVE  [Contract!ContractNext]_(Contract!contractVars)
  <2>1. DeliverCommand(m) => UNCHANGED <<callers, row>>
    BY DEF DeliverCommand, durable
  <2> QED BY <1>1, <1>4, <2>1, DeliverResultImplements
<1>5. ASSUME OwnerStep \/ RunEnds \/ AbortEnds \/ LeaseLost \/ Reclaim
      PROVE  UNCHANGED <<callers, row>>
  BY <1>5 DEF OwnerStep, Continue, Condemn, RunEnds, AbortEnds, LeaseLost, Reclaim, durable
<1>6. ASSUME NEW s \in Servers, Rereserve(s) \/ Crash(s)
      PROVE  [Contract!ContractNext]_(Contract!contractVars)
  <2>1. Rereserve(s) => UNCHANGED <<callers, row>>
    BY DEF Rereserve, durable
  <2> QED BY <1>1, <1>6, <2>1, CrashImplements
<1>7. ASSUME NEW c \in Controls, ResultExpires(c) PROVE UNCHANGED <<callers, row>>
  BY <1>7 DEF ResultExpires, durable
<1>8. ASSUME UNCHANGED routingVars PROVE UNCHANGED <<callers, row>>
  BY <1>8 DEF routingVars, durable
<1>9. ASSUME NEW a \in Attempts, NEW s \in Servers, NEW answer \in Answers, Submit(a, s, answer)
      PROVE  [Contract!ContractNext]_(Contract!contractVars)
  BY <1>9, SubmitImplements
<1> QED BY <1>1, <1>2, <1>3, <1>4, <1>5, <1>6, <1>7, <1>8, <1>9, SupersedeImplements DEF RoutingNext

\* The route keeps what the entry point promises: the first recorded answer stands,
\* "applied" is only said of it, and a repeat of an acknowledged answer is not refused,
\* whatever messages are lost, servers die, results expire and owners change.
THEOREM RouteImplementsContract == RoutingSpec => DecisionContract
<1>1. RoutingInit => Contract!ContractInit
  BY DEF RoutingInit, Contract!ContractInit
<1>2. RoutingInvariant /\ [RoutingNext]_routingVars
        => [Contract!ContractNext]_(Contract!contractVars)
  BY StepImplements
<1> QED BY <1>1, <1>2, RouteIsInvariant, PTL DEF RoutingSpec, DecisionContract, Contract!ContractSpec
=============================================================================
