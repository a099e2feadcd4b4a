----------------------- MODULE InboundProcessor_proofs -----------------------
(***************************************************************************)
(* Proofs about the inbound messages of one route: about its dispatcher,   *)
(* whoever calls it, and about the pool that is its caller, for any        *)
(* messages, modes, workers and capacities.                                *)
(*                                                                         *)
(* That a message is in one place is not inductive when places are         *)
(* counted.  The invariant names them: a message is at one position of one *)
(* list, is handled by one call, or is one task of one call; these exclude *)
(* each other; and a message nothing has become of is nowhere yet, which   *)
(* is what lets the inbox accept it.                                       *)
(***************************************************************************)
EXTENDS InboundProcessor, SequenceTheorems, FiniteSetTheorems, TLAPS

-----------------------------------------------------------------------------
(* The dispatcher, whoever calls its methods.                              *)

DispatcherInv == DispatcherTypeOK /\ IdleHasNoInjection /\ InjectionsBounded

\* A route starts without owners, injections or tasks.
LEMMA DispatcherInvInit == DispatcherInit => DispatcherInv
  BY DispatcherAssumption
  DEF DispatcherInit, DispatcherInv, DispatcherTypeOK, IdleHasNoInjection,
      InjectionsBounded

(* One step per method: an injection enters only under an owner and within *)
(* the capacity, and leaves with the last owner.                           *)
LEMMA DispatcherInvStep == DispatcherInv /\ [DispatcherNext]_dispatcherVars => DispatcherInv'
<1> SUFFICES ASSUME DispatcherInv, [DispatcherNext]_dispatcherVars
             PROVE  DispatcherInv'
  OBVIOUS
<1> USE DispatcherAssumption DEF DispatcherInv, DispatcherTypeOK, IsActive
<1>1. CASE MarkActive
  BY <1>1 DEF MarkActive, IdleHasNoInjection, InjectionsBounded
<1>2. CASE MarkDone
  <2>1. CASE LeavesIdle
    <3>1. injectCh' = <<>> /\ queue' = <<>> /\ activeOwners' \in Nat
      BY <1>2, <2>1 DEF MarkDone
    <3>. QED
      BY <3>1 DEF IdleHasNoInjection, InjectionsBounded
  <2>2. CASE ~LeavesIdle
    <3>1. UNCHANGED <<injectCh, queue>> /\ activeOwners' \in Nat /\ activeOwners' > 0
      BY <1>2, <2>2 DEF MarkDone, LeavesIdle
    <3>. QED
      BY <3>1 DEF IdleHasNoInjection, InjectionsBounded
  <2>. QED
    BY <2>1, <2>2
<1>3. CASE TakeInjected
  <2>1. injectCh' \in Seq(Messages) /\ Len(injectCh') = Len(injectCh) - 1
    BY <1>3, HeadTailProperties DEF TakeInjected
  <2>. QED
    BY <1>3, <2>1 DEF TakeInjected, IdleHasNoInjection, InjectionsBounded
<1>4. ASSUME NEW m \in Messages, Inject(m)
      PROVE  DispatcherInv'
  <2>1. injectCh' \in Seq(Messages) /\ Len(injectCh') = Len(injectCh) + 1
    BY <1>4, AppendProperties DEF Inject
  <2>. QED
    BY <1>4, <2>1 DEF Inject, CanInject, IdleHasNoInjection, InjectionsBounded
<1>5. ASSUME NEW m \in Messages, Enqueue(m)
      PROVE  DispatcherInv'
  <2>1. queue' \in Seq(Messages)
    BY <1>5, AppendProperties DEF Enqueue
  <2>. QED
    BY <1>5, <2>1 DEF Enqueue, IdleHasNoInjection, InjectionsBounded
<1>6. CASE UNCHANGED dispatcherVars
  BY <1>6 DEF dispatcherVars, IdleHasNoInjection, InjectionsBounded
<1>. QED
  BY <1>1, <1>2, <1>3, <1>4, <1>5, <1>6 DEF DispatcherNext

(* The counters and channels of a route hold what their types say.         *)
THEOREM DispatcherTypes == DispatcherSpec => []DispatcherTypeOK
<1>1. DispatcherInv => DispatcherTypeOK
  BY DEF DispatcherInv
<1>. QED
  BY DispatcherInvInit, DispatcherInvStep, <1>1, PTL DEF DispatcherSpec

(* An injection never outlives the owners it was meant for: MarkDone of    *)
(* the last one drains the channel, for every order of calls.              *)
THEOREM NoStaleInjection == DispatcherSpec => []IdleHasNoInjection
<1>1. DispatcherInv => IdleHasNoInjection
  BY DEF DispatcherInv
<1>. QED
  BY DispatcherInvInit, DispatcherInvStep, <1>1, PTL DEF DispatcherSpec

(* The channel never holds more than its capacity.                         *)
THEOREM InjectionsStayBounded == DispatcherSpec => []InjectionsBounded
<1>1. DispatcherInv => InjectionsBounded
  BY DEF DispatcherInv
<1>. QED
  BY DispatcherInvInit, DispatcherInvStep, <1>1, PTL DEF DispatcherSpec

-----------------------------------------------------------------------------
(* The places of a message.                                                *)

Once(s) == \A i, j \in DOMAIN s : s[i] = s[j] => i = j

\* The call of worker w at depth i handles m, or has m as its k-th task.
Handles(w, i, m) ==
  i \in 1..Len(stack[w]) /\ stack[w][i].msg = m /\ stack[w][i].pc # "batch"
HasTask(w, i, k, m) ==
  /\ i \in 1..Len(stack[w])
  /\ k \in 1..Len(stack[w][i].tasks)
  /\ stack[w][i].tasks[k] = m

Handled(m) == \E w \in Workers, i \in Nat : Handles(w, i, m)
Tasked(m)  == \E w \in Workers, i, k \in Nat : HasTask(w, i, k, m)

ListsOnce == Once(inbox) /\ Once(queue) /\ Once(injectCh)
OneCall ==
  \A m \in Messages, v, w \in Workers, i, j \in Nat :
    Handles(v, i, m) /\ Handles(w, j, m) => v = w /\ i = j
OneTask ==
  \A m \in Messages, v, w \in Workers, i, j, k, l \in Nat :
    HasTask(v, i, k, m) /\ HasTask(w, j, l, m) => v = w /\ i = j /\ k = l
Apart ==
  \A m \in Messages :
    /\ m \in Range(inbox) =>
         m \notin Range(queue) /\ m \notin Range(injectCh) /\ ~Handled(m) /\ ~Tasked(m)
    /\ m \in Range(queue) => m \notin Range(injectCh) /\ ~Handled(m) /\ ~Tasked(m)
    /\ m \in Range(injectCh) => ~Handled(m) /\ ~Tasked(m)
    /\ Handled(m) => ~Tasked(m)
Nowhere(m) ==
  /\ m \notin Range(inbox) /\ m \notin Range(queue) /\ m \notin Range(injectCh)
  /\ ~Handled(m) /\ ~Tasked(m)
NothingBecame == \A m \in Messages : outcome[m] = "none" => Nowhere(m)

Position == ListsOnce /\ OneCall /\ OneTask /\ Apart /\ NothingBecame

\* The inductive invariant of the route and its pool.
InboundInvariant == InboundTypeOK /\ IdleHasNoInjection /\ InjectionsBounded /\ Position
-----------------------------------------------------------------------------
(* Lists and stacks.                                                       *)

\* Adding at the end what was not in a list, and taking from its front.
LEMMA AppendOnce ==
  ASSUME NEW s \in Seq(Messages), NEW m \in Messages
  PROVE  /\ Append(s, m) \in Seq(Messages)
         /\ Range(Append(s, m)) = Range(s) \cup {m}
         /\ Once(s) /\ m \notin Range(s) => Once(Append(s, m))
<1>1. /\ Append(s, m) \in Seq(Messages) /\ DOMAIN Append(s, m) = 1..(Len(s) + 1)
      /\ \A i \in 1..Len(s) : Append(s, m)[i] = s[i]
      /\ Append(s, m)[Len(s) + 1] = m
      /\ DOMAIN s = 1..Len(s) /\ Len(s) \in Nat
  BY AppendProperties
<1>2. \A i \in 1..(Len(s) + 1) : i \in 1..Len(s) \/ i = Len(s) + 1
  BY <1>1
<1>3. Range(Append(s, m)) = Range(s) \cup {m}
  <2>1. Len(s) + 1 \in DOMAIN Append(s, m) /\ DOMAIN s \subseteq DOMAIN Append(s, m)
    BY <1>1
  <2> QED BY <1>1, <1>2, <2>1 DEF Range
<1>4. Once(s) /\ m \notin Range(s) => Once(Append(s, m))
  BY <1>1, <1>2 DEF Once, Range
<1> QED BY <1>1, <1>3, <1>4

\* What is left of a list when its head is taken, and what is taken.
LEMMA TailOnce ==
  ASSUME NEW s \in Seq(Messages), s # <<>>
  PROVE  /\ Tail(s) \in Seq(Messages) /\ Head(s) \in Messages
         /\ Len(Tail(s)) = Len(s) - 1 /\ Len(s) \in Nat \ {0}
         /\ Head(s) = s[1] /\ \A i \in 1..Len(Tail(s)) : Tail(s)[i] = s[i + 1]
         /\ Range(s) = Range(Tail(s)) \cup {Head(s)}
         /\ Once(s) => Once(Tail(s)) /\ Head(s) \notin Range(Tail(s))
<1>1. /\ Tail(s) \in Seq(Messages) /\ Head(s) \in Messages /\ Head(s) = s[1]
      /\ Len(Tail(s)) = Len(s) - 1 /\ Len(s) \in Nat \ {0}
      /\ \A i \in 1..Len(Tail(s)) : Tail(s)[i] = s[i + 1]
      /\ DOMAIN s = 1..Len(s) /\ DOMAIN Tail(s) = 1..(Len(s) - 1)
  BY HeadTailProperties, LenProperties
<1>2. \A i \in 1..Len(s) : i = 1 \/ (i - 1 \in 1..(Len(s) - 1) /\ s[i] = Tail(s)[i - 1])
  BY <1>1
<1>3. Range(s) = Range(Tail(s)) \cup {Head(s)}
  <2>1. ASSUME NEW i \in DOMAIN s PROVE s[i] \in Range(Tail(s)) \cup {Head(s)}
    <3>1. CASE i = 1
      BY <1>1, <3>1
    <3>2. CASE i # 1
      <4>1. i - 1 \in DOMAIN Tail(s) /\ s[i] = Tail(s)[i - 1]
        BY <1>1, <1>2, <3>2
      <4> QED BY <4>1 DEF Range
    <3> QED BY <3>1, <3>2
  <2>2. Range(Tail(s)) \subseteq Range(s)
    BY <1>1 DEF Range
  <2>3. Head(s) \in Range(s)
    BY <1>1 DEF Range
  <2>4. Range(s) \subseteq Range(Tail(s)) \cup {Head(s)}
    BY <2>1 DEF Range
  <2> QED BY <2>2, <2>3, <2>4
<1>4. Once(s) => Once(Tail(s)) /\ Head(s) \notin Range(Tail(s))
  <2> SUFFICES ASSUME Once(s) PROVE Once(Tail(s)) /\ Head(s) \notin Range(Tail(s))
    OBVIOUS
  <2>1. \A i, j \in DOMAIN Tail(s) : Tail(s)[i] = Tail(s)[j] => i + 1 = j + 1
    BY <1>1 DEF Once
  <2>2. Once(Tail(s))
    BY <1>1, <2>1 DEF Once
  <2>3. \A i \in DOMAIN Tail(s) : Tail(s)[i] # Head(s)
    BY <1>1 DEF Once
  <2> QED BY <2>2, <2>3 DEF Range
<1> QED BY <1>1, <1>3, <1>4

\* An empty list.
LEMMA EmptyOnce == Range(<<>>) = {} /\ Once(<<>>) /\ <<>> \in Seq(Messages)
<1>1. Len(<<>>) = 0 /\ <<>> \in Seq(Messages)
  OBVIOUS
<1>2. DOMAIN <<>> = 1..0
  BY <1>1, LenProperties
<1>3. \A i : i \notin DOMAIN <<>>
  BY <1>2
<1> QED BY <1>1, <1>3 DEF Range, Once

StackTyped == stack \in [Workers -> Seq(Frame)]

\* The innermost call is replaced: the places of the others stay.
LEMMA SetTopPlaces ==
  ASSUME StackTyped, NEW w \in Workers, stack[w] # <<>>, NEW f \in Frame, SetTop(w, f)
  PROVE  /\ StackTyped'
         /\ Len(stack[w]) \in Nat \ {0} /\ Top(w) \in Frame
         /\ \A v \in Workers, i \in Nat, m \in Messages :
              Handles(v, i, m)' <=> IF v = w /\ i = Len(stack[w])
                                    THEN f.msg = m /\ f.pc # "batch" ELSE Handles(v, i, m)
         /\ \A v \in Workers, i, k \in Nat, m \in Messages :
              HasTask(v, i, k, m)' <=> IF v = w /\ i = Len(stack[w])
                                       THEN k \in 1..Len(f.tasks) /\ f.tasks[k] = m
                                       ELSE HasTask(v, i, k, m)
<1> DEFINE n == Len(stack[w])
<1>1. stack[w] \in Seq(Frame) /\ n \in Nat \ {0}
  BY EmptySeq, LenProperties DEF StackTyped
<1>2. stack' = [stack EXCEPT ![w] = [stack[w] EXCEPT ![n] = f]]
  BY DEF SetTop
<1>3. /\ [stack[w] EXCEPT ![n] = f] \in Seq(Frame)
      /\ Len([stack[w] EXCEPT ![n] = f]) = n
      /\ \A i \in 1..n : [stack[w] EXCEPT ![n] = f][i] = IF i = n THEN f ELSE stack[w][i]
  BY <1>1, ExceptSeq, LenProperties
<1>4. /\ StackTyped'
      /\ \A v \in Workers : /\ Len(stack'[v]) = Len(stack[v])
                            /\ \A i \in 1..Len(stack[v]) :
                                 stack'[v][i] = IF v = w /\ i = n THEN f ELSE stack[v][i]
  BY <1>2, <1>3 DEF StackTyped
<1>5. Top(w) \in Frame
  BY <1>1, LenProperties, ElementOfSeq DEF Top
<1>6. \A v \in Workers, i \in Nat :
        /\ i \in 1..Len(stack'[v]) <=> i \in 1..Len(stack[v])
        /\ i \in 1..Len(stack[v]) => stack'[v][i] = IF v = w /\ i = n THEN f ELSE stack[v][i]
        /\ v = w /\ i = n => i \in 1..Len(stack[v])
  BY <1>1, <1>4
<1> HIDE DEF n
<1>7. \A v \in Workers, i \in Nat, m \in Messages :
        Handles(v, i, m)' <=> IF v = w /\ i = n THEN f.msg = m /\ f.pc # "batch"
                              ELSE Handles(v, i, m)
  BY <1>6 DEF Handles
<1>8. \A v \in Workers, i, k \in Nat, m \in Messages :
        HasTask(v, i, k, m)' <=> IF v = w /\ i = n
                                 THEN k \in 1..Len(f.tasks) /\ f.tasks[k] = m
                                 ELSE HasTask(v, i, k, m)
  BY <1>6 DEF HasTask
<1> QED BY <1>1, <1>4, <1>5, <1>7, <1>8 DEF n

\* A call that goes on inside HandleInbound keeps its message and its tasks.
LEMMA GotoPlaces ==
  ASSUME StackTyped, NEW w \in Workers, stack[w] # <<>>, Top(w).pc # "batch",
         NEW to \in Pcs \ {"batch"}, Goto(w, to)
  PROVE  /\ StackTyped'
         /\ \A v \in Workers, i \in Nat, m \in Messages : Handles(v, i, m)' => Handles(v, i, m)
         /\ \A v \in Workers, i, k \in Nat, m \in Messages :
              HasTask(v, i, k, m)' => HasTask(v, i, k, m)
<1> DEFINE f == [Top(w) EXCEPT !.pc = to]
<1>1. stack[w] \in Seq(Frame) /\ Len(stack[w]) \in 1..Len(stack[w])
  BY EmptySeq, LenProperties DEF StackTyped
<1>2. Top(w) \in Frame
  BY <1>1, ElementOfSeq DEF Top
<1>3. f \in Frame /\ f.msg = Top(w).msg /\ f.tasks = Top(w).tasks
  BY <1>2 DEF Frame
<1>4. SetTop(w, f)
  BY DEF Goto
<1> HIDE DEF f
<1>5. /\ StackTyped'
      /\ \A v \in Workers, i \in Nat, m \in Messages :
           Handles(v, i, m)' <=> IF v = w /\ i = Len(stack[w])
                                 THEN f.msg = m /\ f.pc # "batch" ELSE Handles(v, i, m)
      /\ \A v \in Workers, i, k \in Nat, m \in Messages :
           HasTask(v, i, k, m)' <=> IF v = w /\ i = Len(stack[w])
                                    THEN k \in 1..Len(f.tasks) /\ f.tasks[k] = m
                                    ELSE HasTask(v, i, k, m)
  BY <1>3, <1>4, SetTopPlaces
<1>6. \A m \in Messages : f.msg = m => Handles(w, Len(stack[w]), m)
  BY <1>1, <1>3 DEF Handles, Top
<1>7. \A k \in Nat, m \in Messages :
        k \in 1..Len(f.tasks) /\ f.tasks[k] = m => HasTask(w, Len(stack[w]), k, m)
  BY <1>1, <1>3 DEF HasTask, Top
<1> QED BY <1>5, <1>6, <1>7

\* A call that returns is in no place any more.
LEMMA ReturnPlaces ==
  ASSUME StackTyped, NEW w \in Workers, stack[w] # <<>>, Return(w)
  PROVE  /\ StackTyped'
         /\ \A v \in Workers, i \in Nat, m \in Messages :
              Handles(v, i, m)' => Handles(v, i, m) /\ ~(v = w /\ i = Len(stack[w]))
         /\ \A v \in Workers, i, k \in Nat, m \in Messages :
              HasTask(v, i, k, m)' => HasTask(v, i, k, m)
<1> DEFINE n == Len(stack[w])
           short == SubSeq(stack[w], 1, n - 1)
<1>1. stack[w] \in Seq(Frame) /\ n \in Nat \ {0}
  BY EmptySeq, LenProperties DEF StackTyped
<1>2. /\ short \in Seq(Frame) /\ Len(short) = n - 1
      /\ \A i \in 1..(n - 1) : short[i] = stack[w][i]
  <2>1. \A i \in 1..(n - 1) : stack[w][i] \in Frame
    BY <1>1, ElementOfSeq
  <2> QED BY <1>1, <2>1, SubSeqProperties
<1>3. stack' = [stack EXCEPT ![w] = short]
  BY DEF Return
<1> HIDE DEF short
<1>4. /\ StackTyped'
      /\ stack'[w] = short
      /\ \A v \in Workers : v # w => stack'[v] = stack[v]
  BY <1>2, <1>3 DEF StackTyped
<1>5. \A v \in Workers, i \in Nat :
        i \in 1..Len(stack'[v]) =>
          i \in 1..Len(stack[v]) /\ stack'[v][i] = stack[v][i] /\ ~(v = w /\ i = n)
  BY <1>1, <1>2, <1>4
<1> HIDE DEF n
<1>6. \A v \in Workers, i \in Nat, m \in Messages :
        Handles(v, i, m)' => Handles(v, i, m) /\ ~(v = w /\ i = n)
  BY <1>5 DEF Handles
<1>7. \A v \in Workers, i, k \in Nat, m \in Messages :
        HasTask(v, i, k, m)' => HasTask(v, i, k, m)
  BY <1>5 DEF HasTask
<1> QED BY <1>4, <1>6, <1>7 DEF n
-----------------------------------------------------------------------------
(* Steps and positions.                                                    *)

StillNone == \A m \in Messages : outcome'[m] = "none" => outcome[m] = "none"
CallsStay == \A v \in Workers, i \in Nat, m \in Messages : Handles(v, i, m)' => Handles(v, i, m)
TasksStay ==
  \A v \in Workers, i, k \in Nat, m \in Messages : HasTask(v, i, k, m)' => HasTask(v, i, k, m)

\* A step that puts no message anywhere keeps every position.
LEMMA NothingArrives ==
  ASSUME Position, ListsOnce', StillNone, CallsStay, TasksStay,
         Range(inbox)' \subseteq Range(inbox), Range(queue)' \subseteq Range(queue),
         Range(injectCh)' \subseteq Range(injectCh)
  PROVE  Position'
<1> USE DEF Position, CallsStay, TasksStay
<1>1. \A m \in Messages : (Handled(m)' => Handled(m)) /\ (Tasked(m)' => Tasked(m))
  BY DEF Handled, Tasked
<1>2. OneCall'
  BY DEF OneCall
<1>3. OneTask'
  BY DEF OneTask
<1>4. Apart'
  BY <1>1 DEF Apart
<1>5. NothingBecame'
  BY <1>1 DEF NothingBecame, Nowhere, StillNone
<1> QED BY <1>2, <1>3, <1>4, <1>5

\* A message that is in no place is put at the end of the inbox.
LEMMA ArrivesInInbox ==
  ASSUME Position, inbox \in Seq(Messages), NEW m \in Messages, Nowhere(m),
         inbox' = Append(inbox, m), UNCHANGED <<queue, injectCh, stack>>,
         StillNone, outcome'[m] # "none"
  PROVE  Position'
<1> USE DEF Position
<1>1. Range(inbox)' = Range(inbox) \cup {m} /\ Once(inbox)'
  BY AppendOnce DEF ListsOnce, Nowhere
<1>2. ListsOnce'
  BY <1>1 DEF ListsOnce
<1>3. \A x \in Messages : (Handled(x)' <=> Handled(x)) /\ (Tasked(x)' <=> Tasked(x))
  BY DEF Handled, Tasked, Handles, HasTask
<1>4. OneCall' /\ OneTask'
  <2>1. \A v \in Workers, i \in Nat, x \in Messages : Handles(v, i, x)' <=> Handles(v, i, x)
    BY DEF Handles
  <2>2. \A v \in Workers, i, k \in Nat, x \in Messages :
          HasTask(v, i, k, x)' <=> HasTask(v, i, k, x)
    BY DEF HasTask
  <2>3. OneCall'
    BY <2>1 DEF OneCall
  <2>4. OneTask'
    BY <2>2 DEF OneTask
  <2> QED BY <2>3, <2>4
<1>5. Apart'
  BY <1>1, <1>3 DEF Apart, Nowhere
<1>6. NothingBecame'
  BY <1>1, <1>3 DEF NothingBecame, Nowhere, StillNone
<1> QED BY <1>2, <1>4, <1>5, <1>6

\* A message leaves the call that handled it for the queue, or for the channel.
LEMMA CallReturnsInto ==
  ASSUME Position, StackTyped, queue \in Seq(Messages), injectCh \in Seq(Messages),
         NEW w \in Workers, stack[w] # <<>>, Top(w).pc # "batch",
         NEW m \in Messages, m = Msg(w), Return(w),
         \/ queue' = Append(queue, m) /\ UNCHANGED injectCh
         \/ injectCh' = Append(injectCh, m) /\ UNCHANGED queue,
         UNCHANGED inbox, StillNone, outcome'[m] # "none"
  PROVE  Position'
<1> USE DEF Position
<1> DEFINE n == Len(stack[w])
<1>1. n \in Nat /\ Handles(w, n, m)
  <2>1. stack[w] \in Seq(Frame) /\ n \in 1..n
    BY EmptySeq, LenProperties DEF StackTyped
  <2> QED BY <2>1 DEF Handles, Msg, Top
<1>2. /\ \A v \in Workers, i \in Nat, x \in Messages :
           Handles(v, i, x)' => Handles(v, i, x) /\ ~(v = w /\ i = n)
      /\ \A v \in Workers, i, k \in Nat, x \in Messages :
           HasTask(v, i, k, x)' => HasTask(v, i, k, x)
  BY ReturnPlaces
<1> HIDE DEF n
<1>3. \A x \in Messages : (Handled(x)' => Handled(x) /\ x # m) /\ (Tasked(x)' => Tasked(x))
  <2>1. ASSUME NEW x \in Messages, Handled(x)' PROVE Handled(x) /\ x # m
    BY <1>1, <1>2, <2>1 DEF Handled, OneCall
  <2>2. ASSUME NEW x \in Messages, Tasked(x)' PROVE Tasked(x)
    BY <1>2, <2>2 DEF Tasked
  <2> QED BY <2>1, <2>2
<1>4. OneCall' /\ OneTask'
  <2>1. OneCall'
    BY <1>2 DEF OneCall
  <2>2. OneTask'
    BY <1>2 DEF OneTask
  <2> QED BY <2>1, <2>2
<1>5. /\ m \notin Range(inbox) /\ m \notin Range(queue) /\ m \notin Range(injectCh)
      /\ ~Tasked(m)
  BY <1>1 DEF Apart, Handled
<1>6. /\ ListsOnce' /\ Range(inbox)' = Range(inbox)
      /\ \/ Range(queue)' = Range(queue) \cup {m} /\ Range(injectCh)' = Range(injectCh)
         \/ Range(injectCh)' = Range(injectCh) \cup {m} /\ Range(queue)' = Range(queue)
  BY <1>5, AppendOnce DEF ListsOnce
<1>7. Apart'
  BY <1>3, <1>5, <1>6 DEF Apart
<1>8. NothingBecame'
  BY <1>3, <1>6 DEF NothingBecame, Nowhere, StillNone
<1> QED BY <1>4, <1>6, <1>7, <1>8

\* A worker takes the first message of the inbox.
LEMMA ArrivesFromInbox ==
  ASSUME Position, StackTyped, inbox \in Seq(Messages), NEW w \in Workers, Take(w)
  PROVE  StackTyped' /\ inbox' \in Seq(Messages) /\ Len(inbox') <= Len(inbox) /\ Position'
<1> DEFINE m == Head(inbox)
<1> USE DEF Position
<1>1. /\ stack[w] = <<>> /\ inbox # <<>> /\ inbox' = Tail(inbox)
      /\ stack' = [stack EXCEPT ![w] = <<Call(m)>>]
      /\ UNCHANGED <<queue, injectCh, outcome>>
  BY DEF Take, dispatcherVars
<1>2. /\ inbox' \in Seq(Messages) /\ m \in Messages /\ Len(inbox') <= Len(inbox)
      /\ Range(inbox) = Range(inbox)' \cup {m}
      /\ Once(inbox)' /\ m \notin Range(inbox)'
  BY <1>1, TailOnce DEF ListsOnce
<1> HIDE DEF m
<1>3. /\ Call(m) \in Frame /\ Call(m).msg = m /\ Call(m).pc = "route" /\ Call(m).tasks = <<>>
      /\ Len(<<Call(m)>>) = 1 /\ <<Call(m)>>[1] = Call(m)
  BY <1>2 DEF Call, Frame, Pcs
<1>4. StackTyped' /\ stack'[w] = <<Call(m)>> /\ \A v \in Workers : v # w => stack'[v] = stack[v]
  BY <1>1, <1>3 DEF StackTyped
<1>5. \A v \in Workers, i \in Nat, x \in Messages :
        Handles(v, i, x)' <=> Handles(v, i, x) \/ (v = w /\ i = 1 /\ x = m)
  BY <1>1, <1>3, <1>4 DEF Handles
<1>6. \A v \in Workers, i, k \in Nat, x \in Messages :
        HasTask(v, i, k, x)' <=> HasTask(v, i, k, x)
  BY <1>1, <1>3, <1>4 DEF HasTask
<1>7. /\ m \notin Range(queue) /\ m \notin Range(injectCh) /\ ~Handled(m) /\ ~Tasked(m)
      /\ m \in Range(inbox)
  BY <1>2 DEF Apart
<1>8. \A x \in Messages : (Handled(x)' => Handled(x) \/ x = m) /\ (Tasked(x)' => Tasked(x))
  BY <1>5, <1>6 DEF Handled, Tasked
<1>9. OneCall'
  BY <1>5, <1>7 DEF OneCall, Handled
<1>10. OneTask'
  BY <1>6 DEF OneTask
<1>11. ListsOnce'
  BY <1>1, <1>2 DEF ListsOnce
<1>12. Range(queue)' = Range(queue) /\ Range(injectCh)' = Range(injectCh)
  BY <1>1
<1>13. Apart'
  BY <1>2, <1>7, <1>8, <1>12 DEF Apart
<1>14. NothingBecame'
  BY <1>1, <1>2, <1>7, <1>8, <1>12 DEF NothingBecame, Nowhere
<1> QED BY <1>2, <1>4, <1>9, <1>10, <1>11, <1>13, <1>14

\* The last owner makes the queue its tasks; it handles its message no more.
LEMMA QueueBecomesTasks ==
  ASSUME Position, StackTyped, queue \in Seq(Messages), injectCh \in Seq(Messages),
         outcome \in [Messages -> Outcomes], NEW w \in Workers, Drain(w)
  PROVE  StackTyped' /\ outcome' \in [Messages -> Outcomes] /\ Position'
<1> USE DEF Position
<1> DEFINE n == Len(stack[w])
           f == [Top(w) EXCEPT !.pc = "batch", !.tasks = QueuedTasks]
<1>1. /\ stack[w] # <<>> /\ Top(w).pc = "drain" /\ MarkDone /\ SetTop(w, f) /\ UNCHANGED inbox
      /\ outcome' = [m \in Messages |->
                       IF m \in Range(DrainedInject) THEN "dropped" ELSE outcome[m]]
  BY DEF Drain, In
<1>2. Top(w) \in Frame /\ QueuedTasks \in Seq(Messages)
  <2>1. stack[w] \in Seq(Frame) /\ n \in 1..n
    BY <1>1, EmptySeq, LenProperties DEF StackTyped
  <2> QED BY <2>1, ElementOfSeq, EmptySeq DEF Top, QueuedTasks
<1>3. f \in Frame /\ f.pc = "batch" /\ f.tasks = QueuedTasks
  BY <1>2 DEF Frame, Pcs
<1> HIDE DEF f
<1>4. /\ StackTyped' /\ n \in Nat
      /\ \A v \in Workers, i \in Nat, x \in Messages :
           Handles(v, i, x)' => Handles(v, i, x)
      /\ \A v \in Workers, i, k \in Nat, x \in Messages :
           HasTask(v, i, k, x)' <=> IF v = w /\ i = n
                                    THEN k \in 1..Len(QueuedTasks) /\ QueuedTasks[k] = x
                                    ELSE HasTask(v, i, k, x)
  BY <1>1, <1>3, SetTopPlaces
<1> HIDE DEF n
<1>5. /\ outcome' \in [Messages -> Outcomes] /\ StillNone
      /\ Range(inbox)' = Range(inbox)
  BY <1>1 DEF Outcomes, StillNone
<1>6. CASE LeavesIdle
  <2>1. /\ queue' = <<>> /\ injectCh' = <<>> /\ QueuedTasks = queue
        /\ DOMAIN queue = 1..Len(queue)
    BY <1>1, <1>6, LenProperties DEF MarkDone, QueuedTasks
  <2>2. ListsOnce' /\ Range(queue)' = {} /\ Range(injectCh)' = {}
    BY <1>1, <2>1, EmptyOnce DEF ListsOnce
  <2>3. \A v \in Workers, i, k \in Nat, x \in Messages :
          HasTask(v, i, k, x)' =>
            \/ v = w /\ i = n /\ k \in DOMAIN queue /\ queue[k] = x /\ x \in Range(queue)
            \/ HasTask(v, i, k, x) /\ Tasked(x)
    BY <1>4, <2>1 DEF Range, Tasked
  <2>4. \A x \in Messages : /\ Handled(x)' => Handled(x)
                            /\ Tasked(x)' => Tasked(x) \/ x \in Range(queue)
    <3>1. ASSUME NEW x \in Messages, Handled(x)' PROVE Handled(x)
      BY <1>4, <3>1 DEF Handled
    <3>2. ASSUME NEW x \in Messages, Tasked(x)' PROVE Tasked(x) \/ x \in Range(queue)
      BY <2>3, <3>2 DEF Tasked
    <3> QED BY <3>1, <3>2
  <2>5. OneCall'
    BY <1>4 DEF OneCall
  <2>6. OneTask'
    <3> SUFFICES ASSUME NEW x \in Messages, NEW v \in Workers, NEW u \in Workers,
                        NEW i \in Nat, NEW j \in Nat, NEW k \in Nat, NEW l \in Nat,
                        HasTask(v, i, k, x)', HasTask(u, j, l, x)'
                 PROVE  v = u /\ i = j /\ k = l
      BY DEF OneTask
    <3>1. ~(x \in Range(queue) /\ Tasked(x))
      BY DEF Apart
    <3>2. CASE x \in Range(queue)
      <4>1. /\ v = w /\ i = n /\ k \in DOMAIN queue /\ queue[k] = x
            /\ u = w /\ j = n /\ l \in DOMAIN queue /\ queue[l] = x
        BY <2>3, <3>1, <3>2
      <4> QED BY <4>1 DEF ListsOnce, Once
    <3>3. CASE x \notin Range(queue)
      BY <2>3, <3>3 DEF OneTask
    <3> QED BY <3>2, <3>3
  <2>7. Apart'
    BY <1>5, <2>2, <2>4 DEF Apart
  <2>8. NothingBecame'
    BY <1>5, <2>2, <2>4 DEF NothingBecame, Nowhere, StillNone
  <2> QED BY <1>4, <1>5, <2>2, <2>5, <2>6, <2>7, <2>8
<1>7. CASE ~LeavesIdle
  <2>1. UNCHANGED <<queue, injectCh>> /\ QueuedTasks = <<>> /\ Len(QueuedTasks) = 0
    BY <1>1, <1>7 DEF MarkDone, QueuedTasks
  <2>2. CallsStay /\ TasksStay
    <3>1. CallsStay
      BY <1>4 DEF CallsStay
    <3>2. TasksStay
      BY <1>4, <2>1 DEF TasksStay
    <3> QED BY <3>1, <3>2
  <2>3. ListsOnce'
    BY <1>1, <2>1 DEF ListsOnce
  <2> QED BY <1>4, <1>5, <2>1, <2>2, <2>3, NothingArrives
<1> QED BY <1>6, <1>7

\* The first task of a batch becomes a call of its own, on top of it.
LEMMA TaskBecomesCall ==
  ASSUME Position, StackTyped, NEW w \in Workers, NextTask(w), Top(w).tasks # <<>>
  PROVE  StackTyped' /\ Position'
<1> USE DEF Position
<1> DEFINE n == Len(stack[w])
           m == Head(Top(w).tasks)
           f == [stack[w][n] EXCEPT !.tasks = Tail(Top(w).tasks)]
           below == [stack[w] EXCEPT ![n] = f]
<1>1. /\ stack[w] # <<>> /\ Top(w).pc = "batch"
      /\ stack' = [stack EXCEPT ![w] = Append([stack[w] EXCEPT ![n].tasks = Tail(Top(w).tasks)],
                                              Call(m))]
      /\ UNCHANGED <<inbox, queue, injectCh, outcome>>
  BY DEF NextTask, In, dispatcherVars
<1>2. /\ stack[w] \in Seq(Frame) /\ n \in Nat \ {0} /\ n \in 1..n
      /\ Top(w) \in Frame /\ Top(w).tasks \in Seq(Messages) /\ Top(w) = stack[w][n]
  <2>1. stack[w] \in Seq(Frame) /\ n \in Nat \ {0} /\ n \in 1..n
    BY <1>1, EmptySeq, LenProperties DEF StackTyped
  <2>2. Top(w) \in Frame
    BY <2>1, ElementOfSeq DEF Top
  <2> QED BY <2>1, <2>2 DEF Frame, Top
<1>3. /\ m \in Messages /\ Tail(Top(w).tasks) \in Seq(Messages)
      /\ Len(Tail(Top(w).tasks)) = Len(Top(w).tasks) - 1 /\ Len(Top(w).tasks) \in Nat \ {0}
      /\ m = Top(w).tasks[1]
      /\ \A k \in 1..Len(Tail(Top(w).tasks)) : Tail(Top(w).tasks)[k] = Top(w).tasks[k + 1]
  BY <1>2, TailOnce
<1>4. /\ f \in Frame /\ f.pc = "batch" /\ f.tasks = Tail(Top(w).tasks)
      /\ Call(m) \in Frame /\ Call(m).msg = m /\ Call(m).pc = "route" /\ Call(m).tasks = <<>>
  <2>1. f = [Top(w) EXCEPT !.tasks = Tail(Top(w).tasks)]
    BY DEF Top
  <2> HIDE DEF f, m
  <2>2. f \in Frame /\ f.pc = "batch" /\ f.tasks = Tail(Top(w).tasks)
    BY <1>1, <1>2, <1>3, <2>1 DEF Frame
  <2>3. /\ Call(m) \in Frame /\ Call(m).msg = m /\ Call(m).pc = "route"
        /\ Call(m).tasks = <<>>
    BY <1>3 DEF Frame, Call, Pcs
  <2> QED BY <2>2, <2>3
<1>5. [stack[w] EXCEPT ![n].tasks = Tail(Top(w).tasks)] = below
  OBVIOUS
<1>6. below \in Seq(Frame) /\ Len(below) = n
      /\ \A i \in 1..n : below[i] = IF i = n THEN f ELSE stack[w][i]
  BY <1>2, <1>4, ExceptSeq, LenProperties
<1> HIDE DEF f, below, m, n
<1>7. /\ Append(below, Call(m)) \in Seq(Frame) /\ Len(Append(below, Call(m))) = n + 1
      /\ \A i \in 1..n : Append(below, Call(m))[i] = IF i = n THEN f ELSE stack[w][i]
      /\ Append(below, Call(m))[n + 1] = Call(m)
  BY <1>4, <1>6, AppendProperties
<1>8. /\ StackTyped' /\ stack'[w] = Append(below, Call(m))
      /\ \A v \in Workers : v # w => stack'[v] = stack[v]
  BY <1>1, <1>5, <1>7 DEF StackTyped
<1>9. \A v \in Workers, i \in Nat :
        /\ (v # w \/ (i # n /\ i # n + 1)) =>
             /\ i \in 1..Len(stack'[v]) <=> i \in 1..Len(stack[v])
             /\ i \in 1..Len(stack[v]) => stack'[v][i] = stack[v][i]
        /\ stack'[w][n] = f /\ stack'[w][n + 1] = Call(m)
        /\ n \in 1..Len(stack'[w]) /\ n + 1 \in 1..Len(stack'[w]) /\ n + 1 \notin 1..Len(stack[w])
  <2>1. n = Len(stack[w]) /\ n \in Nat \ {0}
    BY <1>2 DEF n
  <2>2. Len(stack'[w]) = n + 1 /\ stack'[w][n] = f /\ stack'[w][n + 1] = Call(m)
    BY <2>1, <1>7, <1>8
  <2>3. \A i \in Nat : i # n /\ i # n + 1 =>
          /\ i \in 1..(n + 1) <=> i \in 1..n
          /\ i \in 1..n => stack'[w][i] = stack[w][i]
    BY <2>1, <1>7, <1>8
  <2>4. n \in 1..(n + 1) /\ n + 1 \in 1..(n + 1) /\ n + 1 \notin 1..n
    BY <2>1
  <2> QED BY <1>8, <2>1, <2>2, <2>3, <2>4
<1>10. \A v \in Workers, i \in Nat, x \in Messages :
         Handles(v, i, x)' => Handles(v, i, x) \/ (v = w /\ i = n + 1 /\ x = m)
  BY <1>4, <1>9 DEF Handles
<1>11. \A v \in Workers, i, k \in Nat, x \in Messages :
         HasTask(v, i, k, x)' => \/ HasTask(v, i, k, x) /\ ~(v = w /\ i = n)
                                 \/ v = w /\ i = n /\ HasTask(w, n, k + 1, x) /\ k + 1 # 1
  <2>1. Len(<<>>) = 0
    OBVIOUS
  <2>2. \A k \in Nat : k \in 1..Len(f.tasks) =>
          k + 1 \in 1..Len(Top(w).tasks) /\ f.tasks[k] = Top(w).tasks[k + 1] /\ k + 1 # 1
    BY <1>3, <1>4
  <2>3. n \in 1..Len(stack[w]) /\ stack[w][n] = Top(w)
    BY <1>2 DEF n
  <2> SUFFICES ASSUME NEW v \in Workers, NEW i \in Nat, NEW k \in Nat, NEW x \in Messages,
                      HasTask(v, i, k, x)'
               PROVE  \/ HasTask(v, i, k, x) /\ ~(v = w /\ i = n)
                      \/ v = w /\ i = n /\ HasTask(w, n, k + 1, x) /\ k + 1 # 1
    OBVIOUS
  <2>4. /\ i \in 1..Len(stack'[v]) /\ k \in 1..Len(stack'[v][i].tasks)
        /\ stack'[v][i].tasks[k] = x
    BY DEF HasTask
  <2>5. CASE v = w /\ i = n
    <3>1. k \in 1..Len(f.tasks) /\ f.tasks[k] = x
      BY <1>9, <2>4, <2>5
    <3> QED BY <2>2, <2>3, <2>5, <3>1 DEF HasTask
  <2>6. CASE v = w /\ i = n + 1
    <3>1. k \in 1..0
      BY <1>4, <1>9, <2>1, <2>4, <2>6
    <3> QED BY <3>1
  <2>7. CASE v # w \/ (i # n /\ i # n + 1)
    <3>1. HasTask(v, i, k, x)
      BY <1>9, <2>4, <2>7 DEF HasTask
    <3> QED BY <2>7, <3>1
  <2> QED BY <2>5, <2>6, <2>7
<1>12. HasTask(w, n, 1, m)
  <2>1. n \in 1..Len(stack[w]) /\ stack[w][n] = Top(w)
    BY <1>2 DEF n
  <2>2. 1 \in 1..Len(Top(w).tasks) /\ Top(w).tasks[1] = m
    BY <1>3
  <2> QED BY <2>1, <2>2 DEF HasTask
<1>13. n \in Nat /\ m \in Messages /\ Tasked(m)
  BY <1>2, <1>3, <1>12 DEF Tasked
<1>14. /\ m \notin Range(inbox) /\ m \notin Range(queue) /\ m \notin Range(injectCh)
       /\ ~Handled(m)
  BY <1>13 DEF Apart
<1>15. \A x \in Messages : /\ Handled(x)' => Handled(x) \/ x = m
                           /\ Tasked(x)' => Tasked(x) /\ x # m
  <2>1. ASSUME NEW x \in Messages, Handled(x)' PROVE Handled(x) \/ x = m
    BY <1>10, <2>1 DEF Handled
  <2>2. ASSUME NEW x \in Messages, Tasked(x)' PROVE Tasked(x) /\ x # m
    <3>1. PICK v \in Workers, i \in Nat, k \in Nat : HasTask(v, i, k, x)'
      BY <2>2 DEF Tasked
    <3>2. CASE HasTask(v, i, k, x) /\ ~(v = w /\ i = n)
      BY <1>12, <1>13, <3>2 DEF OneTask, Tasked
    <3>3. CASE HasTask(w, n, k + 1, x) /\ k + 1 # 1
      <4>1. k + 1 \in Nat /\ 1 \in Nat
        OBVIOUS
      <4> QED BY <1>12, <1>13, <3>3, <4>1 DEF OneTask, Tasked
    <3> QED BY <1>11, <3>1, <3>2, <3>3
  <2> QED BY <2>1, <2>2
<1>16. OneCall'
  BY <1>10, <1>14 DEF OneCall, Handled
<1>17. OneTask'
  <2> SUFFICES ASSUME NEW x \in Messages, NEW v \in Workers, NEW u \in Workers,
                      NEW i \in Nat, NEW j \in Nat, NEW k \in Nat, NEW l \in Nat,
                      HasTask(v, i, k, x)', HasTask(u, j, l, x)'
               PROVE  v = u /\ i = j /\ k = l
    BY DEF OneTask
  <2>1. \/ HasTask(v, i, k, x) /\ ~(v = w /\ i = n)
        \/ v = w /\ i = n /\ HasTask(w, n, k + 1, x)
    BY <1>11
  <2>2. \/ HasTask(u, j, l, x) /\ ~(u = w /\ j = n)
        \/ u = w /\ j = n /\ HasTask(w, n, l + 1, x)
    BY <1>11
  <2>3. k + 1 \in Nat /\ l + 1 \in Nat /\ (k + 1 = l + 1 => k = l)
    OBVIOUS
  <2> QED BY <1>13, <2>1, <2>2, <2>3 DEF OneTask
<1>18. ListsOnce' /\ Range(inbox)' = Range(inbox) /\ Range(queue)' = Range(queue)
       /\ Range(injectCh)' = Range(injectCh)
  BY <1>1 DEF ListsOnce
<1>19. Apart'
  BY <1>14, <1>15, <1>18 DEF Apart
<1>20. NothingBecame'
  BY <1>1, <1>13, <1>15, <1>18 DEF NothingBecame, Nowhere
<1> QED BY <1>8, <1>16, <1>17, <1>18, <1>19, <1>20
-----------------------------------------------------------------------------
(* One step per action of the pool.                                        *)

\* A call goes on, is left for the drain, or returns: no message arrives anywhere.
LEMMA CallGoesOn ==
  ASSUME StackTyped, NEW w \in Workers, stack[w] # <<>>,
         \/ Return(w)
         \/ Top(w).pc # "batch" /\ (Leave(w) \/ \E to \in Pcs \ {"batch"} : Goto(w, to))
  PROVE  StackTyped' /\ CallsStay /\ TasksStay
<1>1. CASE Return(w)
  BY <1>1, ReturnPlaces DEF CallsStay, TasksStay
<1>2. ASSUME NEW to \in Pcs \ {"batch"}, Top(w).pc # "batch", Goto(w, to)
      PROVE  StackTyped' /\ CallsStay /\ TasksStay
  BY <1>2, GotoPlaces DEF CallsStay, TasksStay
<1>3. CASE Top(w).pc # "batch" /\ Leave(w)
  <2>1. "drain" \in Pcs \ {"batch"}
    BY DEF Pcs
  <2>2. Return(w) \/ Goto(w, "drain")
    BY <1>3 DEF Leave
  <2> QED BY <1>1, <1>2, <1>3, <2>1, <2>2
<1> QED BY <1>1, <1>2, <1>3

\* With the lists as they are, such a step keeps every position.
LEMMA QuietStep ==
  ASSUME Position, StackTyped', CallsStay, TasksStay, StillNone,
         UNCHANGED <<inbox, queue, injectCh>>
  PROVE  Position'
<1>1. ListsOnce'
  BY DEF Position, ListsOnce
<1> QED BY <1>1, NothingArrives

\* What the type invariant says of the parts the steps rest on.
LEMMA TypedParts ==
  ASSUME InboundTypeOK
  PROVE  /\ StackTyped /\ inbox \in Seq(Messages) /\ Len(inbox) <= InboxSize
         /\ queue \in Seq(Messages) /\ injectCh \in Seq(Messages) /\ activeOwners \in Nat
         /\ outcome \in [Messages -> Outcomes]
         /\ \A w \in Workers : stack[w] # <<>> => Top(w) \in Frame /\ Msg(w) \in Messages
<1>1. StackTyped
  BY DEF InboundTypeOK, StackTyped
<1>2. ASSUME NEW w \in Workers, stack[w] # <<>>
      PROVE  Top(w) \in Frame /\ Msg(w) \in Messages
  <2>1. stack[w] \in Seq(Frame) /\ Len(stack[w]) \in 1..Len(stack[w])
    BY <1>1, <1>2, EmptySeq, LenProperties DEF StackTyped
  <2>2. Top(w) \in Frame
    BY <2>1, ElementOfSeq DEF Top
  <2> QED BY <2>2 DEF Msg, Frame
<1> QED BY <1>1, <1>2 DEF InboundTypeOK, DispatcherTypeOK

\* What became of one message is noted: of the others nothing changes.
LEMMA BecomesNotes ==
  ASSUME outcome \in [Messages -> Outcomes], NEW m \in Messages,
         NEW o \in Outcomes \ {"none"}, Becomes(m, o)
  PROVE  outcome' \in [Messages -> Outcomes] /\ StillNone /\ outcome'[m] # "none"
BY DEF Becomes, StillNone

\* What the steps of a call have to show, beyond types and positions of the rest.
Kept == InboundTypeOK' /\ Position' /\ [DispatcherNext]_dispatcherVars

\* Manager.HandleInbound puts in the inbox what is nowhere yet.
LEMMA WebhookKeeps ==
  ASSUME InboundTypeOK, Position, NEW m \in Messages, Accept(m)
  PROVE  Kept
<1> USE InboundAssumption
<1>1. /\ outcome[m] = "none" /\ Len(inbox) < InboxSize /\ inbox' = Append(inbox, m)
      /\ Becomes(m, "accepted")
      /\ UNCHANGED <<activeOwners, injectCh, queue, mode, stack, forwarders, stoppable, slot>>
  BY DEF Accept, dispatcherVars, streamVars
<1>2. Nowhere(m)
  BY <1>1 DEF Position, NothingBecame
<1>3. outcome' \in [Messages -> Outcomes] /\ StillNone /\ outcome'[m] # "none"
  BY <1>1, TypedParts, BecomesNotes DEF Outcomes
<1>4. inbox' \in Seq(Messages) /\ Len(inbox') <= InboxSize
  BY <1>1, TypedParts, AppendProperties, LenProperties
<1>5. Position'
  BY <1>1, <1>2, <1>3, TypedParts, ArrivesInInbox
<1>6. InboundTypeOK'
  BY <1>1, <1>3, <1>4 DEF InboundTypeOK, DispatcherTypeOK
<1> QED BY <1>1, <1>5, <1>6 DEF Kept, dispatcherVars

\* A worker of the pool takes a message out of the inbox.
LEMMA TakeKeeps ==
  ASSUME InboundTypeOK, Position, NEW w \in Workers, Take(w)
  PROVE  Kept
<1>1. StackTyped' /\ inbox' \in Seq(Messages) /\ Len(inbox') <= Len(inbox) /\ Position'
  BY TypedParts, ArrivesFromInbox
<1>2. Len(inbox') <= InboxSize
  BY <1>1, TypedParts, LenProperties, InboundAssumption
<1>3. UNCHANGED <<dispatcherVars, mode, streamVars, outcome>>
  BY DEF Take
<1>4. InboundTypeOK'
  BY <1>1, <1>2, <1>3
  DEF InboundTypeOK, DispatcherTypeOK, dispatcherVars, streamVars, StackTyped
<1> QED BY <1>1, <1>3, <1>4 DEF Kept

\* The steps of a call that neither put a message somewhere nor touch a list.
LEMMA CallKeeps ==
  ASSUME InboundTypeOK, Position, NEW w \in Workers,
         \/ Route(w) \/ Mark(w) \/ OpenFails(w) \/ StartTurn(w) \/ Resume(w) \/ TurnEnds(w)
         \/ FinishRun(w) \/ Close(w) \/ Abandon(w)
         \/ NextTask(w) /\ Top(w).tasks = <<>>
  PROVE  Kept
<1> DEFINE Goes == \/ Return(w)
                   \/ Top(w).pc # "batch" /\ (Leave(w) \/ \E to \in Pcs \ {"batch"} : Goto(w, to))
<1>1. /\ stack[w] # <<>> /\ Goes
      /\ UNCHANGED <<inbox, queue, injectCh, mode>>
      /\ MarkActive \/ UNCHANGED activeOwners
  BY DEF Route, Mark, OpenFails, StartTurn, Resume, TurnEnds, FinishRun, Close, Abandon, NextTask,
         In, Pcs, MarkActive, dispatcherVars, streamVars
<1>2. StackTyped' /\ CallsStay /\ TasksStay
  BY <1>1, TypedParts, CallGoesOn
<1> HIDE DEF Goes
<1>3. Msg(w) \in Messages
  BY <1>1, TypedParts
<1>4. outcome' \in [Messages -> Outcomes] /\ StillNone
  <2>1. UNCHANGED outcome
        \/ \E o \in {"streamed", "busy", "refused"} : Becomes(Msg(w), o)
    BY DEF Route, Mark, OpenFails, StartTurn, Resume, TurnEnds, FinishRun, Close, Abandon, NextTask
  <2> QED BY <1>3, <2>1, TypedParts, BecomesNotes DEF Outcomes, StillNone
<1>5. Position'
  BY <1>1, <1>2, <1>4, QuietStep
<1>6. /\ forwarders' \subseteq Messages /\ stoppable' \in Messages \cup {NoMessage}
      /\ slot' \in [msg : Messages \cup {NoMessage}, parked : BOOLEAN]
  <2>1. /\ forwarders \subseteq Messages /\ stoppable \in Messages \cup {NoMessage}
        /\ slot \in [msg : Messages \cup {NoMessage}, parked : BOOLEAN]
    BY DEF InboundTypeOK
  <2>2. Free \in [msg : Messages \cup {NoMessage}, parked : BOOLEAN]
    BY DEF Free
  <2>3. \A b \in BOOLEAN : [slot EXCEPT !.parked = b]
                             \in [msg : Messages \cup {NoMessage}, parked : BOOLEAN]
    BY <2>1
  <2>4. CASE StartTurn(w)
    <3>1. [msg |-> Msg(w), parked |-> FALSE] \in [msg : Messages \cup {NoMessage}, parked : BOOLEAN]
      BY <1>3
    <3>2. slot' \in {slot, [msg |-> Msg(w), parked |-> FALSE]}
      BY <2>4 DEF StartTurn
    <3>3. forwarders' \subseteq forwarders \cup {Msg(w)} /\ stoppable' \in {Msg(w), NoMessage}
      BY <2>4 DEF StartTurn
    <3> QED BY <1>3, <2>1, <3>1, <3>2, <3>3
  <2>5. CASE Resume(w)
    BY <2>1, <2>3, <2>5 DEF Resume
  <2>6. CASE FinishRun(w)
    BY <2>1, <2>2, <2>3, <2>6 DEF FinishRun
  <2>7. CASE ~StartTurn(w) /\ ~Resume(w) /\ ~FinishRun(w)
    <3>1. UNCHANGED <<forwarders, slot>> /\ stoppable' \in {stoppable, NoMessage}
      BY <2>7 DEF Route, Mark, OpenFails, TurnEnds, Close, Abandon, NextTask, streamVars
    <3> QED BY <2>1, <3>1
  <2> QED BY <2>4, <2>5, <2>6, <2>7
<1>7. activeOwners' \in Nat
  BY <1>1, TypedParts DEF MarkActive
<1>8. InboundTypeOK'
  BY <1>1, <1>2, <1>4, <1>6, <1>7 DEF InboundTypeOK, DispatcherTypeOK, StackTyped
<1> QED BY <1>1, <1>5, <1>8 DEF Kept, DispatcherNext, dispatcherVars

\* An offered message goes into the channel or the queue as its call returns, or stays.
LEMMA OfferKeeps ==
  ASSUME InboundTypeOK, Position, NEW w \in Workers, OfferInject(w) \/ OfferQueue(w)
  PROVE  Kept
<1>1. /\ stack[w] # <<>> /\ Top(w).pc = "offer"
      /\ UNCHANGED <<inbox, mode, forwarders, stoppable, slot, activeOwners>>
  BY DEF OfferInject, OfferQueue, In, Inject, Enqueue, dispatcherVars, streamVars
<1>2. Msg(w) \in Messages
  BY <1>1, TypedParts
<1>3. CASE Goto(w, "mark") /\ UNCHANGED <<dispatcherVars, outcome>>
  <2>1. StackTyped' /\ CallsStay /\ TasksStay
    BY <1>1, <1>3, TypedParts, CallGoesOn DEF Pcs
  <2>2. Position'
    BY <1>1, <1>3, <2>1, QuietStep DEF dispatcherVars, StillNone
  <2> QED BY <1>1, <1>3, <2>1, <2>2
          DEF Kept, InboundTypeOK, DispatcherTypeOK, dispatcherVars, StackTyped
<1>4. CASE /\ Return(w)
           /\ \/ Inject(Msg(w)) /\ Becomes(Msg(w), "injected")
              \/ Enqueue(Msg(w)) /\ Becomes(Msg(w), "queued")
  <2>1. outcome' \in [Messages -> Outcomes] /\ StillNone /\ outcome'[Msg(w)] # "none"
    <3>1. \E o \in Outcomes \ {"none"} : Becomes(Msg(w), o)
      BY <1>4 DEF Outcomes
    <3> QED BY <1>2, <3>1, TypedParts, BecomesNotes
  <2>2. \/ queue' = Append(queue, Msg(w)) /\ UNCHANGED injectCh
        \/ injectCh' = Append(injectCh, Msg(w)) /\ UNCHANGED queue
    BY <1>4 DEF Inject, Enqueue
  <2>3. Position'
    BY <1>1, <1>2, <1>4, <2>1, <2>2, TypedParts, CallReturnsInto
  <2>4. StackTyped'
    BY <1>1, <1>4, TypedParts, ReturnPlaces
  <2>5. queue' \in Seq(Messages) /\ injectCh' \in Seq(Messages)
    <3>1. queue \in Seq(Messages) /\ injectCh \in Seq(Messages)
      BY TypedParts
    <3>2. Append(queue, Msg(w)) \in Seq(Messages) /\ Append(injectCh, Msg(w)) \in Seq(Messages)
      BY <1>2, <3>1, AppendOnce
    <3> QED BY <2>2, <3>1, <3>2
  <2>6. InboundTypeOK'
    BY <1>1, <2>1, <2>4, <2>5 DEF InboundTypeOK, DispatcherTypeOK, StackTyped
  <2> QED BY <1>2, <1>4, <2>3, <2>6 DEF Kept, DispatcherNext
<1> QED BY <1>3, <1>4 DEF OfferInject, OfferQueue

\* drainQueue of the last owner, or of one that is not the last.
LEMMA DrainKeeps ==
  ASSUME InboundTypeOK, Position, NEW w \in Workers, Drain(w)
  PROVE  Kept
<1>1. StackTyped' /\ outcome' \in [Messages -> Outcomes] /\ Position'
  BY TypedParts, QueueBecomesTasks
<1>2. MarkDone /\ UNCHANGED <<inbox, mode, forwarders, stoppable, slot>>
  BY DEF Drain, streamVars
<1>3. activeOwners' \in Nat /\ queue' \in Seq(Messages) /\ injectCh' \in Seq(Messages)
  <2>1. queue \in Seq(Messages) /\ injectCh \in Seq(Messages) /\ activeOwners \in Nat
    BY TypedParts
  <2>2. CASE LeavesIdle
    BY <1>2, <2>1, <2>2, EmptyOnce DEF MarkDone
  <2>3. CASE ~LeavesIdle
    BY <1>2, <2>1, <2>3 DEF MarkDone
  <2> QED BY <2>2, <2>3
<1>4. InboundTypeOK'
  BY <1>1, <1>2, <1>3 DEF InboundTypeOK, DispatcherTypeOK, StackTyped
<1> QED BY <1>1, <1>2, <1>4 DEF Kept, DispatcherNext

\* A batch goes on with its next task, or is done.
LEMMA NextTaskKeeps ==
  ASSUME InboundTypeOK, Position, NEW w \in Workers, NextTask(w)
  PROVE  Kept
<1>1. CASE Top(w).tasks = <<>>
  BY <1>1, CallKeeps
<1>2. CASE Top(w).tasks # <<>>
  <2>1. StackTyped' /\ Position'
    BY <1>2, TypedParts, TaskBecomesCall
  <2>2. UNCHANGED <<dispatcherVars, inbox, mode, streamVars, outcome>>
    BY DEF NextTask
  <2>3. InboundTypeOK'
    BY <2>1, <2>2 DEF InboundTypeOK, DispatcherTypeOK, dispatcherVars, streamVars, StackTyped
  <2> QED BY <2>1, <2>2, <2>3 DEF Kept
<1> QED BY <1>1, <1>2

\* /stop moves the calls that stream the message it found; they keep everything else.
LEMMA StopKeeps ==
  ASSUME InboundTypeOK, Position, Stop
  PROVE  Kept
<1> DEFINE Found(w) == In(w, "stream") /\ Msg(w) = stoppable
           ended(w) == [stack[w] EXCEPT ![Len(stack[w])].pc = "ending"]
<1>1. /\ stack' = [w \in Workers |-> IF Found(w) THEN ended(w) ELSE stack[w]]
      /\ stoppable' = NoMessage
      /\ UNCHANGED <<activeOwners, injectCh, queue, inbox, mode, forwarders, slot, outcome>>
  BY DEF Stop, dispatcherVars
<1>2. ASSUME NEW w \in Workers, Found(w)
      PROVE  /\ ended(w) \in Seq(Frame) /\ Len(ended(w)) = Len(stack[w])
             /\ \A i \in 1..Len(stack[w]) :
                  /\ ended(w)[i].msg = stack[w][i].msg /\ ended(w)[i].tasks = stack[w][i].tasks
                  /\ ended(w)[i].pc # "batch" => stack[w][i].pc # "batch"
  <2> DEFINE n == Len(stack[w])
             f == [stack[w][n] EXCEPT !.pc = "ending"]
             s == [stack[w] EXCEPT ![n] = f]
  <2>1. /\ stack[w] \in Seq(Frame) /\ n \in 1..n /\ stack[w][n] \in Frame
        /\ stack[w][n].pc = "stream"
    <3>1. stack[w] # <<>> /\ stack[w][n].pc = "stream"
      BY <1>2 DEF In, Top
    <3>2. stack[w] \in Seq(Frame) /\ n \in 1..n
      BY <3>1, TypedParts, EmptySeq, LenProperties DEF StackTyped
    <3> QED BY <3>1, <3>2, ElementOfSeq
  <2>2. ended(w) = s
    OBVIOUS
  <2>3. f \in Frame /\ f.pc = "ending" /\ f.msg = stack[w][n].msg /\ f.tasks = stack[w][n].tasks
    BY <2>1 DEF Frame, Pcs
  <2> HIDE DEF f
  <2>4. s \in Seq(Frame) /\ Len(s) = n /\ \A i \in 1..n : s[i] = IF i = n THEN f ELSE stack[w][i]
    BY <2>1, <2>3, ExceptSeq, LenProperties
  <2> HIDE DEF s, n, ended
  <2>5. /\ ended(w) \in Seq(Frame) /\ Len(ended(w)) = n
        /\ \A i \in 1..n :
             /\ ended(w)[i].msg = stack[w][i].msg /\ ended(w)[i].tasks = stack[w][i].tasks
             /\ ended(w)[i].pc # "batch" => stack[w][i].pc # "batch"
    BY <2>1, <2>2, <2>3, <2>4
  <2> QED BY <2>5 DEF n
<1> HIDE DEF Found, ended
<1>3. StackTyped'
  BY <1>1, <1>2, TypedParts DEF StackTyped
<1>4. \A w \in Workers :
        /\ Len(stack'[w]) = Len(stack[w])
        /\ \A i \in 1..Len(stack[w]) :
             /\ stack'[w][i].msg = stack[w][i].msg /\ stack'[w][i].tasks = stack[w][i].tasks
             /\ stack'[w][i].pc # "batch" => stack[w][i].pc # "batch"
  BY <1>1, <1>2
<1>5. CallsStay
  BY <1>4 DEF CallsStay, Handles
<1>6. TasksStay
  BY <1>4 DEF TasksStay, HasTask
<1>7. Position'
  BY <1>1, <1>3, <1>5, <1>6, QuietStep DEF StillNone
<1>8. InboundTypeOK'
  BY <1>1, <1>3 DEF InboundTypeOK, DispatcherTypeOK, StackTyped
<1> QED BY <1>1, <1>7, <1>8 DEF Kept, dispatcherVars

\* Forwarders take from the channel; a run without its stream only frees the slot.
LEMMA BackgroundKeeps ==
  ASSUME InboundTypeOK, Position, UNCHANGED stack,
         \/ \E m \in Messages : Forward(m) \/ ForwarderStops(m)
         \/ DetachedRunEnds
         \/ UNCHANGED inboundVars
  PROVE  Kept
<1>1. /\ UNCHANGED <<activeOwners, queue, inbox, mode, stoppable>>
      /\ forwarders' \subseteq forwarders
      /\ TakeInjected \/ UNCHANGED injectCh
  BY DEF Forward, ForwarderStops, DetachedRunEnds, inboundVars, TakeInjected, dispatcherVars
<1>2. /\ injectCh' \in Seq(Messages) /\ Once(injectCh')
      /\ Range(injectCh') \subseteq Range(injectCh)
  <2>1. injectCh \in Seq(Messages) /\ Once(injectCh)
    BY TypedParts DEF Position, ListsOnce
  <2>2. CASE TakeInjected
    BY <2>1, <2>2, TailOnce DEF TakeInjected
  <2>3. CASE UNCHANGED injectCh
    BY <2>1, <2>3
  <2> QED BY <1>1, <2>2, <2>3
<1>3. outcome' \in [Messages -> Outcomes] /\ StillNone
  <2>1. ASSUME NEW m \in Messages, Forward(m)
        PROVE  outcome' \in [Messages -> Outcomes] /\ StillNone
    <3>1. Head(injectCh) \in Messages
      BY <2>1, TypedParts, TailOnce DEF Forward, TakeInjected
    <3>2. \E o \in Outcomes \ {"none"} : Becomes(Head(injectCh), o)
      BY <2>1 DEF Forward, Outcomes
    <3> QED BY <3>1, <3>2, TypedParts, BecomesNotes
  <2>2. CASE UNCHANGED outcome
    BY <2>2, TypedParts DEF StillNone
  <2> QED BY <2>1, <2>2 DEF ForwarderStops, DetachedRunEnds, inboundVars
<1>4. slot' \in [msg : Messages \cup {NoMessage}, parked : BOOLEAN]
  <2>1. slot \in [msg : Messages \cup {NoMessage}, parked : BOOLEAN]
    BY DEF InboundTypeOK
  <2>2. slot' \in {slot, Free, [slot EXCEPT !.parked = TRUE]}
    BY DEF Forward, ForwarderStops, DetachedRunEnds, inboundVars
  <2>3. Free \in [msg : Messages \cup {NoMessage}, parked : BOOLEAN]
    BY DEF Free
  <2> QED BY <2>1, <2>2, <2>3
<1>5. CallsStay /\ TasksStay
  BY DEF CallsStay, TasksStay, Handles, HasTask
<1>6. ListsOnce'
  BY <1>1, <1>2 DEF Position, ListsOnce
<1>7. Position'
  BY <1>1, <1>2, <1>3, <1>5, <1>6, NothingArrives
<1>8. InboundTypeOK'
  BY <1>1, <1>2, <1>3, <1>4 DEF InboundTypeOK, DispatcherTypeOK
<1> QED BY <1>1, <1>7, <1>8 DEF Kept, DispatcherNext, dispatcherVars
-----------------------------------------------------------------------------
\* Before the first message nothing is anywhere.
LEMMA InitPlaces == InboundInit => InboundInvariant
<1> SUFFICES ASSUME InboundInit PROVE InboundInvariant
  OBVIOUS
<1>1. DispatcherInv
  BY DispatcherInvInit DEF InboundInit
<1>2. inbox = <<>> /\ queue = <<>> /\ injectCh = <<>> /\ Len(inbox) = 0
  BY DEF InboundInit, DispatcherInit
<1>3. \A w \in Workers : stack[w] = <<>> /\ Len(stack[w]) = 0
  BY DEF InboundInit
<1>4. InboundTypeOK
  <2>1. stack \in [Workers -> Seq(Frame)]
    BY EmptySeq DEF InboundInit
  <2>2. outcome \in [Messages -> Outcomes] /\ slot \in [msg : Messages \cup {NoMessage}, parked : BOOLEAN]
    BY DEF InboundInit, Outcomes, Free
  <2>3. inbox \in Seq(Messages) /\ Len(inbox) <= InboxSize
    BY <1>2, EmptySeq, InboundAssumption
  <2> QED BY <1>1, <2>1, <2>2, <2>3 DEF InboundTypeOK, InboundInit, DispatcherInv
<1>5. \A m \in Messages : ~Handled(m) /\ ~Tasked(m)
  BY <1>3 DEF Handled, Tasked, Handles, HasTask
<1>6. ListsOnce /\ Range(inbox) = {} /\ Range(queue) = {} /\ Range(injectCh) = {}
  BY <1>2, EmptyOnce DEF ListsOnce
<1>7. OneCall /\ OneTask
  BY <1>3 DEF OneCall, OneTask, Handles, HasTask
<1>8. Apart /\ NothingBecame
  BY <1>5, <1>6 DEF Apart, NothingBecame, Nowhere
<1> QED BY <1>1, <1>4, <1>6, <1>7, <1>8 DEF InboundInvariant, Position, DispatcherInv

\* Every step of the pool keeps the invariant, and is one of its dispatcher or none.
LEMMA InboundStep ==
  InboundInvariant /\ [InboundNext]_inboundVars =>
    InboundInvariant' /\ [DispatcherNext]_dispatcherVars
<1> SUFFICES ASSUME InboundInvariant, [InboundNext]_inboundVars
             PROVE  InboundInvariant' /\ [DispatcherNext]_dispatcherVars
  OBVIOUS
<1>1. InboundTypeOK /\ Position /\ DispatcherInv
  BY DEF InboundInvariant, DispatcherInv, InboundTypeOK
<1>2. Kept
  <2>1. ASSUME NEW m \in Messages, Accept(m) \/ Forward(m) \/ ForwarderStops(m)
        PROVE  Kept
    <3>1. CASE Accept(m)
      BY <1>1, <3>1, WebhookKeeps
    <3>2. CASE Forward(m) \/ ForwarderStops(m)
      <4>1. UNCHANGED stack
        BY <3>2 DEF Forward, ForwarderStops
      <4> QED BY <1>1, <3>2, <4>1, BackgroundKeeps
    <3> QED BY <2>1, <3>1, <3>2
  <2>2. ASSUME NEW w \in Workers, WorkerStep(w) \/ OpenFails(w) \/ Abandon(w)
        PROVE  Kept
    BY <1>1, <2>2, TakeKeeps, CallKeeps, OfferKeeps, DrainKeeps, NextTaskKeeps DEF WorkerStep
  <2>3. CASE Stop
    BY <1>1, <2>3, StopKeeps
  <2>4. CASE DetachedRunEnds \/ UNCHANGED inboundVars
    <3>1. UNCHANGED stack
      BY <2>4 DEF DetachedRunEnds, inboundVars
    <3> QED BY <1>1, <2>4, <3>1, BackgroundKeeps
  <2> QED BY <2>1, <2>2, <2>3, <2>4 DEF InboundNext
<1>3. DispatcherInv'
  BY <1>1, <1>2, DispatcherInvStep DEF Kept
<1> QED BY <1>2, <1>3 DEF InboundInvariant, Kept, DispatcherInv

\* A message at one position is counted once, one at none is not counted.
LEMMA CountsOnce ==
  ASSUME NEW s \in Seq(Messages), Once(s), NEW m \in Messages
  PROVE  Count(s, m) = IF m \in Range(s) THEN 1 ELSE 0
<1> DEFINE at == {i \in 1..Len(s) : s[i] = m}
<1>1. DOMAIN s = 1..Len(s)
  BY LenProperties
<1>2. CASE m \in Range(s)
  <2>1. PICK i \in 1..Len(s) : s[i] = m
    BY <1>1, <1>2 DEF Range
  <2>2. at = {i}
    BY <1>1, <2>1 DEF Once
  <2> HIDE DEF at
  <2>3. Cardinality(at) = 1
    BY <2>2, FS_Singleton
  <2> QED BY <1>2, <2>3 DEF at, Count
<1>3. CASE m \notin Range(s)
  <2>1. at = {}
    BY <1>1, <1>3 DEF Range
  <2> HIDE DEF at
  <2>2. Cardinality(at) = 0
    BY <2>1, FS_EmptySet
  <2> QED BY <1>3, <2>2 DEF at, Count
<1> QED BY <1>2, <1>3

\* A set that holds at most one element has at most one, and none if it is empty.
LEMMA AtMostOne ==
  ASSUME NEW S, \A x, y \in S : x = y
  PROVE  Cardinality(S) = IF S = {} THEN 0 ELSE 1
<1>1. CASE S = {}
  BY <1>1, FS_EmptySet
<1>2. CASE S # {}
  <2>1. PICK x \in S : TRUE
    BY <1>2
  <2>2. S = {x}
    BY <2>1
  <2> QED BY <1>2, <2>2, FS_Singleton
<1> QED BY <1>1, <1>2

\* The places a message is counted in are the positions the invariant names.
LEMMA PositionsAreCounted == InboundInvariant => OnePlace
<1> SUFFICES ASSUME InboundInvariant, NEW m \in Messages
             PROVE  Places(m) <= 1
  BY DEF OnePlace
<1> DEFINE calls == {c \in Calls : CallAt(c).msg = m /\ CallAt(c).pc # "batch"}
           tasked == {c \in Calls : m \in Range(CallAt(c).tasks)}
<1> USE DEF InboundInvariant
<1>1. /\ Count(inbox, m) = IF m \in Range(inbox) THEN 1 ELSE 0
      /\ Count(queue, m) = IF m \in Range(queue) THEN 1 ELSE 0
      /\ Count(injectCh, m) = IF m \in Range(injectCh) THEN 1 ELSE 0
  BY TypedParts, CountsOnce DEF Position, ListsOnce
<1>2. \A c \in Calls : /\ c = <<c[1], c[2]>> /\ c[1] \in Workers /\ c[2] \in Nat
                       /\ c[2] \in 1..Len(stack[c[1]])
  BY DEF Calls
<1>3. \A c \in calls : Handles(c[1], c[2], m)
  BY <1>2 DEF Handles, CallAt
<1>4. \A c \in tasked : \E k \in Nat : HasTask(c[1], c[2], k, m)
  <2> SUFFICES ASSUME NEW c \in tasked PROVE \E k \in Nat : HasTask(c[1], c[2], k, m)
    OBVIOUS
  <2>1. c \in Calls /\ m \in Range(CallAt(c).tasks)
    OBVIOUS
  <2>2. CallAt(c).tasks \in Seq(Messages)
    <3>1. stack[c[1]] \in Seq(Frame)
      BY <1>2, <2>1, TypedParts DEF StackTyped
    <3>2. CallAt(c) \in Frame
      BY <1>2, <2>1, <3>1, ElementOfSeq DEF CallAt
    <3> QED BY <3>2 DEF Frame
  <2>3. PICK k \in 1..Len(CallAt(c).tasks) : CallAt(c).tasks[k] = m
    BY <2>1, <2>2, LenProperties DEF Range
  <2> QED BY <1>2, <2>1, <2>2, <2>3, LenProperties DEF HasTask, CallAt
<1>5. Cardinality(calls) = IF calls = {} THEN 0 ELSE 1
  <2>1. \A c, d \in calls : c = d
    <3> SUFFICES ASSUME NEW c \in calls, NEW d \in calls PROVE c = d
      OBVIOUS
    <3>1. c[1] = d[1] /\ c[2] = d[2]
      BY <1>2, <1>3 DEF Position, OneCall
    <3>2. c = <<c[1], c[2]>> /\ d = <<d[1], d[2]>>
      BY <1>2
    <3> QED BY <3>1, <3>2
  <2> HIDE DEF calls
  <2> QED BY <2>1, AtMostOne
<1>6. Cardinality(tasked) = IF tasked = {} THEN 0 ELSE 1
  <2>1. \A c, d \in tasked : c = d
    <3> SUFFICES ASSUME NEW c \in tasked, NEW d \in tasked PROVE c = d
      OBVIOUS
    <3>1. c[1] = d[1] /\ c[2] = d[2]
      BY <1>2, <1>4 DEF Position, OneTask
    <3>2. c = <<c[1], c[2]>> /\ d = <<d[1], d[2]>>
      BY <1>2
    <3> QED BY <3>1, <3>2
  <2> HIDE DEF tasked
  <2> QED BY <2>1, AtMostOne
<1>7. (calls # {} => Handled(m)) /\ (tasked # {} => Tasked(m))
  BY <1>2, <1>3, <1>4 DEF Handled, Tasked
<1>8. Places(m) = Count(inbox, m) + Count(queue, m) + Count(injectCh, m)
                  + Cardinality(calls) + Cardinality(tasked)
  BY DEF Places
<1> HIDE DEF calls, tasked
<1> QED BY <1>1, <1>5, <1>6, <1>7, <1>8 DEF Position, Apart
-----------------------------------------------------------------------------
\* The invariant holds for any messages, modes, workers and sizes of the lists.
THEOREM PlacesAreInvariant == InboundSpec => []InboundInvariant
  BY InitPlaces, InboundStep, PTL DEF InboundSpec

\* Manager.HandleInbound, HandleInbound and drainQueue: an accepted message is in
\* the inbox, handled, injected, queued or drained, and in one of these only.
THEOREM MessageInOnePlace == InboundSpec => []OnePlace
  BY PlacesAreInvariant, PositionsAreCounted, PTL

\* MarkDone under its real callers: what the last owner leaves is an empty channel.
THEOREM PoolLeavesNoInjection == InboundSpec => []IdleHasNoInjection
<1>1. InboundInvariant => IdleHasNoInjection
  BY DEF InboundInvariant
<1> QED BY <1>1, PlacesAreInvariant, PTL

\* The pool calls the methods of its dispatcher and changes its state in no other way.
THEOREM PoolImplementsDispatcher == InboundSpec => DispatcherSpec
<1>1. InboundInit => DispatcherInit
  BY DEF InboundInit
<1>2. InboundInvariant /\ [InboundNext]_inboundVars => [DispatcherNext]_dispatcherVars
  BY InboundStep
<1> QED BY <1>1, <1>2, PlacesAreInvariant, PTL DEF InboundSpec, DispatcherSpec
=============================================================================
