------------------------- MODULE PluginCores_proofs -------------------------
(***************************************************************************)
(* Proofs about PluginCores, for any number of calls, threads, builds and  *)
(* processes.                                                              *)
(***************************************************************************)
EXTENDS PluginCores, SequenceTheorems, TLAPS

-----------------------------------------------------------------------------
(* The inductive invariant *)

Starting == {"greeting", "landing", "yielding"}
Holding == {"calling", "yielding"}

(* A call has a process of its own while it starts one, and a core to call *)
(* when it has found one; it has been told where the checkout is before it *)
(* starts anything.                                                        *)
StagesAgree ==
  \A c \in Callers :
    /\ spawned[c] # NoCore <=> stage[c] \in Starting
    /\ hand[c] # NoCore <=> stage[c] \in Holding
    /\ stage[c] = "located" => path[c] # Nowhere

(* Nobody but the call that started it knows a process that has not landed. *)
StartsAreOwn ==
  \A c \in Callers : spawned[c] # NoCore =>
    /\ spawned[c] # running /\ ~Stopping(spawned[c])
    /\ cores[spawned[c]].life # "stopped"
    /\ \A d \in Callers : hand[d] # spawned[c] /\ (d # c => spawned[d] # spawned[c])

(* A call that waits for its own process to end has found the core of the  *)
(* map as surely as one that calls it.                                     *)
HandsReachOne ==
  \A c \in Callers : hand[c] # NoCore /\ Alive(hand[c]) =>
    hand[c] = running \/ Stopping(hand[c])

(* A core taken out of the map is shut down by the next step of whoever     *)
(* took it.                                                                *)
StopsGoOn ==
  \A a \in Admins :
    /\ held[a] # NoCore => At(a, "shut")
    /\ \A k \in 1..Len(todo[a]) : todo[a][k] = "take" =>
         k < Len(todo[a]) /\ todo[a][k + 1] = "shut"

(* `CallsReachOne` and `NoneWasted` are not inductive: that a core which    *)
(* lands is nobody else's needs `StartsAreOwn`, and that one taken out of  *)
(* the map is still being stopped needs `StopsGoOn`.                       *)
IInv ==
  /\ TypeOK /\ StopsGoOn /\ StagesAgree /\ StartsAreOwn
  /\ HandsReachOne /\ NoneWasted /\ MapNotStopped

-----------------------------------------------------------------------------
(* Scripts and processes *)

(* An operation that goes on or ends has steps left to take. *)
LEMMA ScriptAdvances ==
  ASSUME IInv, NEW a \in Admins, todo[a] # <<>>, GoesOn(a) \/ Ends(a)
  PROVE  /\ todo' \in [Admins -> Seq(AdminStep)]
         /\ \A b \in Admins \ {a} : todo'[b] = todo[b]
         /\ \A k \in 1..Len(todo'[a]) : todo'[a][k] = "take" =>
              k < Len(todo'[a]) /\ todo'[a][k + 1] = "shut"
<1>1. todo \in [Admins -> Seq(AdminStep)] /\ todo[a] \in Seq(AdminStep)
  BY DEF IInv, TypeOK
<1>2. /\ Tail(todo[a]) \in Seq(AdminStep) /\ Len(Tail(todo[a])) = Len(todo[a]) - 1
      /\ \A k \in 1..Len(Tail(todo[a])) : Tail(todo[a])[k] = todo[a][k + 1]
      /\ Len(todo[a]) \in Nat \ {0}
  BY <1>1, HeadTailProperties, EmptySeq
<1>3. CASE GoesOn(a)
  <2>1. todo' = [todo EXCEPT ![a] = Tail(todo[a])]
    BY <1>3 DEF GoesOn
  <2>2. todo'[a] = Tail(todo[a]) /\ todo' \in [Admins -> Seq(AdminStep)]
        /\ \A b \in Admins \ {a} : todo'[b] = todo[b]
    BY <1>1, <1>2, <2>1
  <2>3. \A k \in 1..Len(Tail(todo[a])) : Tail(todo[a])[k] = "take" =>
          k + 1 < Len(todo[a]) /\ todo[a][k + 2] = "shut"
    BY <1>2 DEF IInv, StopsGoOn
  <2> QED BY <1>2, <2>2, <2>3
<1>4. CASE Ends(a)
  BY <1>1, <1>4, EmptySeq DEF Ends
<1> QED BY <1>3, <1>4

(* A process whose life changes keeps its place and all else it is, and no *)
(* other changes.                                                          *)
LEMMA LifeChanges ==
  ASSUME TypeOK, NEW p \in CoreId, NEW life \in {"alive", "crashed", "stopped"},
         cores' = [cores EXCEPT ![p].life = life]
  PROVE  /\ cores' \in Seq(Core) /\ Len(cores') = Len(cores)
         /\ cores'[p].life = life /\ \A q \in CoreId \ {p} : cores'[q] = cores[q]
<1>1. cores \in Seq(Core) /\ Len(cores) \in Nat /\ p \in 1..Len(cores)
  BY DEF TypeOK, CoreId
<1>2. cores[p] \in Core
  BY <1>1
<1>3. [cores[p] EXCEPT !.life = life] \in Core /\ [cores[p] EXCEPT !.life = life].life = life
  BY <1>2 DEF Core
<1>4. cores' = [cores EXCEPT ![p] = [cores[p] EXCEPT !.life = life]]
  OBVIOUS
<1>5. cores' \in Seq(Core) /\ Len(cores') = Len(cores) /\ cores'[p] = [cores[p] EXCEPT !.life = life]
  BY <1>1, <1>3, <1>4, ExceptSeq
<1>6. \A q \in CoreId \ {p} : cores'[q] = cores[q]
  BY <1>1, <1>4, ExceptSeq DEF CoreId
<1> QED BY <1>3, <1>5, <1>6

(* One more process does not change those there are. *)
LEMMA CoreAdded ==
  ASSUME TypeOK, NEW new \in Core, cores' = Append(cores, new)
  PROVE  /\ cores' \in Seq(Core) /\ Len(cores') = Len(cores) + 1 /\ Len(cores) \in Nat
         /\ cores'[Len(cores) + 1] = new /\ \A q \in CoreId : cores'[q] = cores[q]
BY DEF TypeOK, CoreId

(* A process that starts is a new one, and its call knows it. *)
LEMMA StartAdds ==
  ASSUME IInv, NEW c \in Callers, Start(c), cores' # cores
  PROVE  /\ cores' \in Seq(Core) /\ Len(cores') = Len(cores) + 1 /\ Len(cores) \in Nat
         /\ \A q \in CoreId : cores'[q] = cores[q]
         /\ cores'[Len(cores) + 1].life = "alive" /\ Len(cores') <= MaxCores
         /\ spawned' = [spawned EXCEPT ![c] = Len(cores) + 1] /\ stage'[c] = "greeting"
<1> DEFINE new == [from |-> path[c], build |-> disk[path[c]], life |-> "alive"]
<1>1. /\ disk[path[c]] # 0 /\ Len(cores) < MaxCores /\ cores' = Append(cores, new)
      /\ spawned' = [spawned EXCEPT ![c] = Len(cores) + 1]
      /\ stage' = [stage EXCEPT ![c] = "greeting"]
  BY DEF Start
<1>2. path[c] \in Kind
  BY DEF Start, IInv, TypeOK, StagesAgree
<1>3. new \in Core /\ new.life = "alive"
  BY <1>1, <1>2, CoresAssumption DEF TypeOK, Core, IInv
<1> HIDE DEF new
<1>4. /\ cores' \in Seq(Core) /\ Len(cores') = Len(cores) + 1 /\ Len(cores) \in Nat
      /\ cores'[Len(cores) + 1] = new /\ \A q \in CoreId : cores'[q] = cores[q]
  BY <1>1, <1>3, CoreAdded DEF IInv
<1>5. stage'[c] = "greeting" /\ Len(cores') <= MaxCores
  BY <1>1, <1>4, CoresAssumption DEF IInv, TypeOK
<1> QED BY <1>1, <1>3, <1>4, <1>5

(* A script in which every core that is taken is shut down next. *)
Stops(script) ==
  /\ script \in Seq(AdminStep)
  /\ \A k \in 1..Len(script) : script[k] = "take" =>
       k < Len(script) /\ script[k + 1] = "shut"

(* Every operation is such a script. *)
LEMMA ScriptsStop ==
  /\ Stops(ReloadScript) /\ Stops(InstallScript) /\ Stops(UninstallScript)
  /\ Stops(EnableScript) /\ Stops(DisableScript) /\ Stops(UpgradeScript)
<1>1. Stops(ReloadScript)
  BY DEF Stops, ReloadScript, AdminStep
<1>2. Stops(InstallScript)
  BY DEF Stops, InstallScript, AdminStep
<1>3. Stops(UninstallScript)
  BY DEF Stops, UninstallScript, AdminStep
<1>4. Stops(EnableScript)
  BY DEF Stops, EnableScript, AdminStep
<1>5. Stops(DisableScript)
  BY DEF Stops, DisableScript, AdminStep
<1>6. Stops(UpgradeScript)
  BY DEF Stops, UpgradeScript, AdminStep
<1> QED BY <1>1, <1>2, <1>3, <1>4, <1>5, <1>6

-----------------------------------------------------------------------------
(* Every step keeps the invariant *)

(* A call that finds a core in the map calls it; one that finds none has none. *)
LEMMA CallKeeps ==
  ASSUME IInv, NEW c \in Callers, Call(c)
  PROVE  IInv'
<1> USE CoresAssumption DEF NoCore, Nowhere, recordVars, diskVars, watchVars, callVars, adminVars,
        ghostVars, Call
<1>1. TypeOK'
  BY DEF TypeOK, CoreId, Core, CallStage, IInv
<1>2. StopsGoOn'
  BY DEF StopsGoOn, At, IInv
<1>3. StagesAgree'
  BY DEF StagesAgree, Starting, Holding, TypeOK, IInv
<1>4. StartsAreOwn'
  BY DEF StartsAreOwn, Stopping, TypeOK, IInv
<1>5. HandsReachOne'
  <2>1. \A d \in Callers : hand'[d] = hand[d] \/ hand'[d] = running
    BY DEF TypeOK, IInv
  <2> QED BY <2>1 DEF HandsReachOne, Alive, Stopping, IInv
<1>6. NoneWasted'
  <2>1. \A d \in Callers : stage[d] \in Starting => stage'[d] = stage[d]
    BY DEF TypeOK, Starting, IInv
  <2> QED BY <2>1 DEF NoneWasted, CoreId, Alive, Stopping, Starting, IInv
<1>7. MapNotStopped'
  BY DEF MapNotStopped, Stopping, IInv
<1> QED BY <1>1, <1>2, <1>3, <1>4, <1>5, <1>6, <1>7 DEF IInv

(* Being told where the checkout is touches no process. *)
LEMMA LocateKeeps ==
  ASSUME IInv, NEW c \in Callers, Locate(c)
  PROVE  IInv'
<1> USE CoresAssumption DEF NoCore, Nowhere, recordVars, diskVars, watchVars, callVars, adminVars,
        ghostVars, Locate
<1>1. TypeOK'
  BY DEF TypeOK, CoreId, CallStage, IInv
<1>2. StopsGoOn'
  BY DEF StopsGoOn, At, IInv
<1>3. StagesAgree'
  BY DEF StagesAgree, Starting, Holding, TypeOK, IInv
<1>4. StartsAreOwn'
  BY DEF StartsAreOwn, Stopping, IInv
<1>5. HandsReachOne'
  BY DEF HandsReachOne, Alive, Stopping, IInv
<1>6. NoneWasted'
  BY DEF NoneWasted, CoreId, Alive, Stopping, IInv
<1>7. MapNotStopped'
  BY DEF MapNotStopped, Stopping, IInv
<1> QED BY <1>1, <1>2, <1>3, <1>4, <1>5, <1>6, <1>7 DEF IInv

(* A process that is started is its call's own: no map, hand or stop has it yet. *)
LEMMA StartKeeps ==
  ASSUME IInv, NEW c \in Callers, Start(c)
  PROVE  IInv'
<1> USE CoresAssumption DEF NoCore, Nowhere, recordVars, diskVars, watchVars, callVars, adminVars,
        ghostVars, Start
<1>1. TypeOK'
  <2>1. stage' \in [Callers -> CallStage] /\ path' \in [Callers -> Kind \cup {Nowhere}]
    BY DEF TypeOK, CallStage, IInv
  <2>2. CASE UNCHANGED <<cores, spawned>>
    BY <2>1, <2>2 DEF TypeOK, CoreId, IInv
  <2>3. CASE cores' # cores
    <3>1. /\ cores' \in Seq(Core) /\ Len(cores') = Len(cores) + 1 /\ Len(cores) \in Nat
          /\ Len(cores') <= MaxCores /\ spawned' = [spawned EXCEPT ![c] = Len(cores) + 1]
      BY <2>3, StartAdds
    <3>2. spawned' \in [Callers -> CoreId' \cup {NoCore}]
      BY <3>1 DEF TypeOK, CoreId, IInv
    <3>3. hand' \in [Callers -> CoreId' \cup {NoCore}] /\ held' \in [Admins -> CoreId' \cup {NoCore}]
      BY <3>1 DEF TypeOK, CoreId, IInv
    <3>4. running' \in CoreId' \cup {NoCore} /\ late' \subseteq CoreId'
      BY <3>1 DEF TypeOK, CoreId, IInv
    <3> QED BY <2>1, <3>1, <3>2, <3>3, <3>4 DEF TypeOK, IInv
  <2>4. UNCHANGED cores => UNCHANGED spawned
    <3>1. Len(cores) \in Nat /\ \A e : cores' = Append(cores, e) => Len(cores') = Len(cores) + 1
      BY DEF TypeOK, IInv
    <3> QED BY <3>1
  <2> QED BY <2>2, <2>3, <2>4
<1>2. StopsGoOn'
  BY DEF StopsGoOn, At, IInv
<1>3. StagesAgree'
  BY DEF StagesAgree, Starting, Holding, TypeOK, IInv
<1>4. StartsAreOwn'
  BY DEF StartsAreOwn, Stopping, TypeOK, CoreId, IInv
<1>5. HandsReachOne'
  BY DEF HandsReachOne, Alive, Stopping, TypeOK, CoreId, IInv
<1>6. NoneWasted'
  <2>1. \A d \in Callers : stage[d] \in Starting => stage'[d] = stage[d] /\ spawned'[d] = spawned[d]
    BY DEF TypeOK, Starting, IInv
  <2>2. CASE UNCHANGED cores
    BY <2>1, <2>2 DEF NoneWasted, CoreId, Alive, Stopping, Starting, IInv
  <2>3. CASE ~UNCHANGED cores
    <3>1. /\ Len(cores') = Len(cores) + 1 /\ Len(cores) \in Nat
          /\ \A q \in CoreId : cores'[q] = cores[q]
          /\ spawned' = [spawned EXCEPT ![c] = Len(cores) + 1] /\ stage'[c] = "greeting"
      BY <2>3, StartAdds
    <3>2. spawned'[c] = Len(cores) + 1 /\ stage'[c] = "greeting"
      BY <3>1 DEF TypeOK, IInv
    <3> QED BY <2>1, <3>1, <3>2 DEF NoneWasted, CoreId, Alive, Stopping, Starting, IInv
  <2> QED BY <2>2, <2>3
<1>7. MapNotStopped'
  <2>1. CASE UNCHANGED cores
    BY <2>1 DEF MapNotStopped, Stopping, IInv
  <2>2. CASE ~UNCHANGED cores
    <3>1. \A q \in CoreId : cores'[q] = cores[q]
      BY <2>2, StartAdds
    <3> QED BY <3>1 DEF MapNotStopped, Stopping, TypeOK, IInv
  <2> QED BY <2>1, <2>2
<1> QED BY <1>1, <1>2, <1>3, <1>4, <1>5, <1>6, <1>7 DEF IInv

(* A greeting that is answered leaves the process its call's own. *)
LEMMA GreetKeeps ==
  ASSUME IInv, NEW c \in Callers, Greet(c)
  PROVE  IInv'
<1> USE CoresAssumption DEF NoCore, Nowhere, recordVars, diskVars, watchVars, callVars, adminVars,
        ghostVars, Greet
<1>1. TypeOK'
  BY DEF TypeOK, CoreId, CallStage, IInv
<1>2. StopsGoOn'
  BY DEF StopsGoOn, At, IInv
<1>3. StagesAgree'
  BY DEF StagesAgree, Starting, Holding, IInv
<1>4. StartsAreOwn'
  BY DEF StartsAreOwn, Stopping, IInv
<1>5. HandsReachOne'
  BY DEF HandsReachOne, Alive, Stopping, IInv
<1>6. NoneWasted'
  BY DEF NoneWasted, CoreId, Alive, Stopping, IInv
<1>7. MapNotStopped'
  BY DEF MapNotStopped, Stopping, IInv
<1> QED BY <1>1, <1>2, <1>3, <1>4, <1>5, <1>6, <1>7 DEF IInv

(* A process that fails to greet is ended before its call forgets it. *)
LEMMA GreetFailsKeeps ==
  ASSUME IInv, NEW c \in Callers, GreetFails(c)
  PROVE  IInv'
<1> USE CoresAssumption DEF NoCore, Nowhere, recordVars, diskVars, watchVars, callVars, adminVars,
        ghostVars, GreetFails, AfterRefusal, Ended
<1>1. TypeOK'
  <2>1. spawned[c] \in CoreId
    BY DEF TypeOK, StagesAgree, Starting, IInv
  <2>2. cores' \in Seq(Core) /\ Len(cores') = Len(cores)
    BY <2>1, LifeChanges DEF IInv
  <2>3. stage' \in [Callers -> CallStage] /\ spawned' \in [Callers -> CoreId \cup {NoCore}]
    BY DEF TypeOK, CallStage, IInv
  <2> QED BY <2>2, <2>3 DEF TypeOK, CoreId, IInv
<1>2. StopsGoOn'
  BY DEF StopsGoOn, At, IInv
<1>3. StagesAgree'
  BY DEF StagesAgree, Starting, Holding, TypeOK, IInv
<1>4. StartsAreOwn'
  BY DEF StartsAreOwn, Stopping, TypeOK, IInv
<1>5. HandsReachOne'
  BY DEF HandsReachOne, Alive, Stopping, IInv
<1>6. NoneWasted'
  <2>1. spawned[c] \in CoreId
    BY DEF TypeOK, StagesAgree, Starting, IInv
  <2>2. /\ Len(cores') = Len(cores) /\ cores'[spawned[c]].life = "stopped"
        /\ \A q \in CoreId \ {spawned[c]} : cores'[q] = cores[q]
    BY <2>1, LifeChanges DEF IInv
  <2>3. \A d \in Callers \ {c} : stage'[d] = stage[d] /\ spawned'[d] = spawned[d]
    BY DEF TypeOK, IInv
  <2> QED BY <2>1, <2>2, <2>3 DEF NoneWasted, CoreId, Alive, Stopping, IInv
<1>7. MapNotStopped'
  BY DEF MapNotStopped, Stopping, StartsAreOwn, IInv
<1> QED BY <1>1, <1>2, <1>3, <1>4, <1>5, <1>6, <1>7 DEF IInv

(* The first start to land becomes the core of the map and of its call. *)
LEMMA LandKeeps ==
  ASSUME IInv, NEW c \in Callers, Land(c)
  PROVE  IInv'
<1> USE CoresAssumption DEF NoCore, Nowhere, recordVars, diskVars, watchVars, callVars, adminVars,
        ghostVars, Land, Vacant
<1>1. TypeOK'
  <2>1. spawned[c] \in CoreId
    BY DEF TypeOK, StagesAgree, Starting, IInv
  <2>2. stage' \in [Callers -> CallStage]
    BY DEF TypeOK, CallStage, IInv
  <2>3. spawned' \in [Callers -> CoreId \cup {NoCore}] /\ hand' \in [Callers -> CoreId \cup {NoCore}]
    BY <2>1 DEF TypeOK, IInv
  <2>4. late' \subseteq CoreId /\ running' \in CoreId /\ overtaken' \subseteq Callers
    BY <2>1 DEF TypeOK, IInv
  <2> QED BY <2>2, <2>3, <2>4 DEF TypeOK, CoreId, IInv
<1>2. StopsGoOn'
  BY DEF StopsGoOn, At, IInv
<1>3. StagesAgree'
  BY DEF StagesAgree, Starting, Holding, TypeOK, IInv
<1>4. StartsAreOwn'
  BY DEF StartsAreOwn, Stopping, TypeOK, IInv
<1>5. HandsReachOne'
  BY DEF HandsReachOne, Alive, Stopping, IInv
<1>6. NoneWasted'
  BY DEF NoneWasted, CoreId, Alive, Stopping, IInv
<1>7. MapNotStopped'
  <2>1. spawned[c] \in CoreId /\ cores[spawned[c]] \in Core
    BY DEF TypeOK, StagesAgree, Starting, CoreId, IInv
  <2>2. ~Stopping(spawned[c])
    BY <2>1 DEF StartsAreOwn, CoreId, IInv
  <2>3. cores[spawned[c]].life # "stopped"
    BY DEF StartsAreOwn, StagesAgree, Starting, IInv
  <2> QED BY <2>2, <2>3 DEF MapNotStopped, Stopping
<1> QED BY <1>1, <1>2, <1>3, <1>4, <1>5, <1>6, <1>7 DEF IInv

(* The second keeps its own process only to end it. *)
LEMMA LandSecondKeeps ==
  ASSUME IInv, NEW c \in Callers, LandSecond(c)
  PROVE  IInv'
<1> USE CoresAssumption DEF NoCore, Nowhere, recordVars, diskVars, watchVars, callVars, adminVars,
        ghostVars, LandSecond, Vacant
<1>1. TypeOK'
  BY DEF TypeOK, CoreId, CallStage, IInv
<1>2. StopsGoOn'
  BY DEF StopsGoOn, At, IInv
<1>3. StagesAgree'
  BY DEF StagesAgree, Starting, Holding, TypeOK, IInv
<1>4. StartsAreOwn'
  BY DEF StartsAreOwn, Stopping, IInv
<1>5. HandsReachOne'
  BY DEF HandsReachOne, Alive, Stopping, IInv
<1>6. NoneWasted'
  BY DEF NoneWasted, CoreId, Alive, Stopping, IInv
<1>7. MapNotStopped'
  BY DEF MapNotStopped, Stopping, IInv
<1> QED BY <1>1, <1>2, <1>3, <1>4, <1>5, <1>6, <1>7 DEF IInv

(* The process that gave way is ended before its call forgets it. *)
LEMMA YieldKeeps ==
  ASSUME IInv, NEW c \in Callers, Yield(c)
  PROVE  IInv'
<1> USE CoresAssumption DEF NoCore, Nowhere, recordVars, diskVars, watchVars, callVars, adminVars,
        ghostVars, Yield, Ended
<1>1. TypeOK'
  <2>1. spawned[c] \in CoreId
    BY DEF TypeOK, StagesAgree, Starting, IInv
  <2>2. cores' \in Seq(Core) /\ Len(cores') = Len(cores)
    BY <2>1, LifeChanges DEF IInv
  <2>3. stage' \in [Callers -> CallStage] /\ spawned' \in [Callers -> CoreId \cup {NoCore}]
    BY DEF TypeOK, CallStage, IInv
  <2> QED BY <2>2, <2>3 DEF TypeOK, CoreId, IInv
<1>2. StopsGoOn'
  BY DEF StopsGoOn, At, IInv
<1>3. StagesAgree'
  BY DEF StagesAgree, Starting, Holding, TypeOK, IInv
<1>4. StartsAreOwn'
  BY DEF StartsAreOwn, Stopping, TypeOK, IInv
<1>5. HandsReachOne'
  BY DEF HandsReachOne, Alive, Stopping, IInv
<1>6. NoneWasted'
  <2>1. spawned[c] \in CoreId
    BY DEF TypeOK, StagesAgree, Starting, IInv
  <2>2. /\ Len(cores') = Len(cores) /\ cores'[spawned[c]].life = "stopped"
        /\ \A q \in CoreId \ {spawned[c]} : cores'[q] = cores[q]
    BY <2>1, LifeChanges DEF IInv
  <2>3. \A d \in Callers \ {c} : stage'[d] = stage[d] /\ spawned'[d] = spawned[d]
    BY DEF TypeOK, IInv
  <2> QED BY <2>1, <2>2, <2>3 DEF NoneWasted, CoreId, Alive, Stopping, IInv
<1>7. MapNotStopped'
  BY DEF MapNotStopped, Stopping, StartsAreOwn, IInv
<1> QED BY <1>1, <1>2, <1>3, <1>4, <1>5, <1>6, <1>7 DEF IInv

(* A call that returns lets go of its core, and that is all. *)
LEMMA ReturnKeeps ==
  ASSUME IInv, NEW c \in Callers, Return(c)
  PROVE  IInv'
<1> USE CoresAssumption DEF NoCore, Nowhere, recordVars, diskVars, watchVars, callVars, adminVars,
        ghostVars, Return
<1>1. TypeOK'
  BY DEF TypeOK, CoreId, CallStage, IInv
<1>2. StopsGoOn'
  BY DEF StopsGoOn, At, IInv
<1>3. StagesAgree'
  BY DEF StagesAgree, Starting, Holding, TypeOK, IInv
<1>4. StartsAreOwn'
  BY DEF StartsAreOwn, Stopping, IInv
<1>5. HandsReachOne'
  BY DEF HandsReachOne, Alive, Stopping, IInv
<1>6. NoneWasted'
  BY DEF NoneWasted, CoreId, Alive, Stopping, IInv
<1>7. MapNotStopped'
  BY DEF MapNotStopped, Stopping, IInv
<1> QED BY <1>1, <1>2, <1>3, <1>4, <1>5, <1>6, <1>7 DEF IInv

(* A core that ends of itself leaves every other as it was. *)
LEMMA CrashKeeps ==
  ASSUME IInv, NEW p \in 1..MaxCores, Crash(p)
  PROVE  IInv'
<1> USE CoresAssumption DEF NoCore, Nowhere, recordVars, diskVars, watchVars, callVars, adminVars,
        ghostVars, Crash
<1>1. TypeOK'
  <2>1. cores' \in Seq(Core) /\ Len(cores') = Len(cores)
    BY LifeChanges DEF CoreId, IInv
  <2> QED BY <2>1 DEF TypeOK, CoreId, IInv
<1>2. StopsGoOn'
  BY DEF StopsGoOn, At, IInv
<1>3. StagesAgree'
  BY DEF StagesAgree, IInv
<1>4. StartsAreOwn'
  BY DEF StartsAreOwn, Stopping, IInv
<1>5. HandsReachOne'
  BY DEF HandsReachOne, Alive, Stopping, IInv
<1>6. NoneWasted'
  BY DEF NoneWasted, CoreId, Alive, Stopping, IInv
<1>7. MapNotStopped'
  BY DEF MapNotStopped, Stopping, IInv
<1> QED BY <1>1, <1>2, <1>3, <1>4, <1>5, <1>6, <1>7 DEF IInv

(* An operation begins with every core it is to take shut down right after. *)
LEMMA BeginKeeps ==
  ASSUME IInv, NEW a \in Admins, Begin(a)
  PROVE  IInv'
<1> USE CoresAssumption DEF NoCore, Nowhere, recordVars, diskVars, watchVars, callVars, adminVars,
        ghostVars, Begin
<1>1. TypeOK'
  <2>1. \A script \in ScriptsOf(a) : script \in Seq(AdminStep)
    BY ScriptsStop DEF ScriptsOf, Stops
  <2>2. todo' \in [Admins -> Seq(AdminStep)]
    BY <2>1 DEF TypeOK, IInv
  <2>3. ops' \in 0..MaxOps
    BY DEF TypeOK, IInv
  <2> QED BY <2>2, <2>3 DEF TypeOK, CoreId, IInv
<1>2. StopsGoOn'
  <2>1. held[a] = NoCore
    BY DEF StopsGoOn, At, IInv
  <2>2. Stops(todo'[a]) /\ \A b \in Admins \ {a} : todo'[b] = todo[b]
    BY ScriptsStop DEF ScriptsOf, TypeOK, IInv
  <2> QED BY <2>1, <2>2 DEF StopsGoOn, Stops, At, IInv
<1>3. StagesAgree'
  BY DEF StagesAgree, IInv
<1>4. StartsAreOwn'
  BY DEF StartsAreOwn, Stopping, IInv
<1>5. HandsReachOne'
  BY DEF HandsReachOne, Alive, Stopping, IInv
<1>6. NoneWasted'
  BY DEF NoneWasted, CoreId, Alive, Stopping, IInv
<1>7. MapNotStopped'
  BY DEF MapNotStopped, Stopping, IInv
<1> QED BY <1>1, <1>2, <1>3, <1>4, <1>5, <1>6, <1>7 DEF IInv

(* The guards of the operations touch no process. *)
LEMMA CheckKeeps ==
  ASSUME IInv, NEW a \in Admins, Check(a)
  PROVE  IInv'
<1> USE CoresAssumption DEF NoCore, Nowhere, recordVars, diskVars, watchVars, callVars, adminVars,
        ghostVars, Check
<1>1. TypeOK'
  <2>1. todo' \in [Admins -> Seq(AdminStep)]
    BY ScriptAdvances DEF At, GoesOnIf
  <2> QED BY <2>1 DEF TypeOK, CoreId, IInv, Kind
<1>2. StopsGoOn'
  <2>1. held[a] = NoCore \/ At(a, "shut")
    BY DEF StopsGoOn, IInv
  <2>2. \A b \in Admins \ {a} : held'[b] = held[b] /\ todo'[b] = todo[b]
    BY ScriptAdvances DEF At, GoesOnIf
  <2>3. held'[a] = NoCore
    BY <2>1 DEF At
  <2> QED BY <2>2, <2>3, ScriptAdvances DEF StopsGoOn, At, GoesOnIf, IInv
<1>3. StagesAgree'
  BY DEF StagesAgree, IInv
<1>4. StartsAreOwn'
  BY DEF StartsAreOwn, Stopping, IInv
<1>5. HandsReachOne'
  BY DEF HandsReachOne, Alive, Stopping, IInv
<1>6. NoneWasted'
  BY DEF NoneWasted, CoreId, Alive, Stopping, IInv
<1>7. MapNotStopped'
  BY DEF MapNotStopped, Stopping, IInv
<1> QED BY <1>1, <1>2, <1>3, <1>4, <1>5, <1>6, <1>7 DEF IInv

(* A new record touches no process. *)
LEMMA RecordKeeps ==
  ASSUME IInv, NEW a \in Admins, Record(a)
  PROVE  IInv'
<1> USE CoresAssumption DEF NoCore, Nowhere, recordVars, diskVars, watchVars, callVars, adminVars,
        ghostVars, Record
<1>1. TypeOK'
  <2>1. todo' \in [Admins -> Seq(AdminStep)]
    BY ScriptAdvances DEF At
  <2> QED BY <2>1 DEF TypeOK, CoreId, IInv, Kind
<1>2. StopsGoOn'
  <2>1. GoesOn(a) \/ Ends(a)
    BY DEF GoesOnIf
  <2>2. todo[a] # <<>> /\ ~At(a, "shut")
    BY DEF At
  <2>3. held[a] = NoCore /\ held' = held
    BY <2>2 DEF StopsGoOn, IInv
  <2>4. \A b \in Admins \ {a} : todo'[b] = todo[b]
    BY <2>1, <2>2, ScriptAdvances
  <2>5. \A k \in 1..Len(todo'[a]) : todo'[a][k] = "take" =>
          k < Len(todo'[a]) /\ todo'[a][k + 1] = "shut"
    BY <2>1, <2>2, ScriptAdvances
  <2>6. \A b \in Admins : held'[b] # NoCore => At(b, "shut")'
    BY <2>3, <2>4 DEF StopsGoOn, At, IInv
  <2>7. \A b \in Admins : \A k \in 1..Len(todo'[b]) : todo'[b][k] = "take" =>
          k < Len(todo'[b]) /\ todo'[b][k + 1] = "shut"
    BY <2>4, <2>5 DEF StopsGoOn, IInv
  <2> QED BY <2>6, <2>7 DEF StopsGoOn
<1>3. StagesAgree'
  BY DEF StagesAgree, IInv
<1>4. StartsAreOwn'
  BY DEF StartsAreOwn, Stopping, IInv
<1>5. HandsReachOne'
  BY DEF HandsReachOne, Alive, Stopping, IInv
<1>6. NoneWasted'
  BY DEF NoneWasted, CoreId, Alive, Stopping, IInv
<1>7. MapNotStopped'
  BY DEF MapNotStopped, Stopping, IInv
<1> QED BY <1>1, <1>2, <1>3, <1>4, <1>5, <1>6, <1>7 DEF IInv

(* Showing or hiding a plugin touches no process. *)
LEMMA SwitchKeeps ==
  ASSUME IInv, NEW a \in Admins, Switch(a)
  PROVE  IInv'
<1> USE CoresAssumption DEF NoCore, Nowhere, recordVars, diskVars, watchVars, callVars, adminVars,
        ghostVars, Switch, Switched
<1>1. TypeOK'
  <2>1. todo' \in [Admins -> Seq(AdminStep)]
    BY ScriptAdvances DEF At, GoesOnIf
  <2> QED BY <2>1 DEF TypeOK, CoreId, IInv, Kind
<1>2. StopsGoOn'
  <2>1. held[a] = NoCore \/ At(a, "shut")
    BY DEF StopsGoOn, IInv
  <2>2. \A b \in Admins \ {a} : held'[b] = held[b] /\ todo'[b] = todo[b]
    BY ScriptAdvances DEF At, GoesOnIf
  <2>3. held'[a] = NoCore
    BY <2>1 DEF At
  <2> QED BY <2>2, <2>3, ScriptAdvances DEF StopsGoOn, At, GoesOnIf, IInv
<1>3. StagesAgree'
  BY DEF StagesAgree, IInv
<1>4. StartsAreOwn'
  BY DEF StartsAreOwn, Stopping, IInv
<1>5. HandsReachOne'
  BY DEF HandsReachOne, Alive, Stopping, IInv
<1>6. NoneWasted'
  BY DEF NoneWasted, CoreId, Alive, Stopping, IInv
<1>7. MapNotStopped'
  BY DEF MapNotStopped, Stopping, IInv
<1> QED BY <1>1, <1>2, <1>3, <1>4, <1>5, <1>6, <1>7 DEF IInv

(* The core taken out of the map is the one its operation is stopping. *)
LEMMA TakeKeeps ==
  ASSUME IInv, NEW a \in Admins, Take(a)
  PROVE  IInv'
<1> USE CoresAssumption DEF NoCore, Nowhere, recordVars, diskVars, watchVars, callVars, adminVars,
        ghostVars, Take, AfterTake
<1>1. TypeOK'
  <2>1. todo' \in [Admins -> Seq(AdminStep)]
    BY ScriptAdvances DEF At
  <2> QED BY <2>1 DEF TypeOK, CoreId, IInv, Kind
<1>2. StopsGoOn'
  <2>1. At(a, "shut")'
    <3>1. todo[a] \in Seq(AdminStep) /\ Len(todo[a]) \in Nat \ {0} /\ todo[a][1] = "take"
      BY EmptySeq DEF At, TypeOK, IInv
    <3>2. 1 < Len(todo[a]) /\ todo[a][1 + 1] = "shut"
      BY <3>1 DEF StopsGoOn, IInv
    <3>3. todo'[a] = Tail(todo[a])
      BY DEF GoesOn, TypeOK, IInv
    <3>4. Len(Tail(todo[a])) = Len(todo[a]) - 1 /\ Tail(todo[a])[1] = todo[a][1 + 1]
          /\ Tail(todo[a]) \in Seq(AdminStep)
      BY <3>1, <3>2, HeadTailProperties, EmptySeq
    <3>5. \A s \in Seq(AdminStep) : Len(s) > 0 => s # <<>> /\ Head(s) = s[1]
      BY EmptySeq
    <3>6. Tail(todo[a]) # <<>> /\ Head(Tail(todo[a])) = "shut"
      <4> DEFINE tail == Tail(todo[a])
      <4>1. tail \in Seq(AdminStep) /\ Len(tail) > 0 /\ tail[1] = "shut"
        BY <3>1, <3>2, <3>4
      <4> HIDE DEF tail
      <4>2. tail # <<>> /\ Head(tail) = "shut"
        BY <4>1, <3>5
      <4> QED BY <4>2 DEF tail
    <3> QED BY <3>3, <3>6 DEF At
  <2>2. \A b \in Admins \ {a} : held'[b] = held[b] /\ todo'[b] = todo[b]
    BY DEF GoesOn
  <2> QED BY <2>1, <2>2, ScriptAdvances DEF StopsGoOn, At, IInv
<1>3. StagesAgree'
  BY DEF StagesAgree, IInv
<1>4. StartsAreOwn'
  BY DEF StartsAreOwn, Stopping, IInv
<1>5. HandsReachOne'
  <2>1. held'[a] = running /\ \A b \in Admins \ {a} : held'[b] = held[b]
    BY DEF TypeOK, IInv
  <2>2. held[a] = NoCore
    BY DEF StopsGoOn, At, IInv
  <2>3. \E b \in Admins : held'[b] = running
    BY <2>1
  <2>4. \A p \in CoreId : Stopping(p) => \E b \in Admins : held'[b] = p
    BY <2>1, <2>2 DEF Stopping, CoreId
  <2> QED BY <2>3, <2>4 DEF HandsReachOne, Stopping, Alive, CoreId, TypeOK, IInv
<1>6. NoneWasted'
  <2>1. held'[a] = running /\ \A b \in Admins \ {a} : held'[b] = held[b]
    BY DEF TypeOK, IInv
  <2>2. held[a] = NoCore
    BY DEF StopsGoOn, At, IInv
  <2>3. \E b \in Admins : held'[b] = running
    BY <2>1
  <2>4. \A p \in CoreId : Stopping(p) => \E b \in Admins : held'[b] = p
    BY <2>1, <2>2 DEF Stopping, CoreId
  <2> QED BY <2>3, <2>4 DEF NoneWasted, Stopping, Alive, CoreId, IInv
<1>7. MapNotStopped'
  BY DEF MapNotStopped
<1> QED BY <1>1, <1>2, <1>3, <1>4, <1>5, <1>6, <1>7 DEF IInv

(* What was taken out of the map is ended, and nothing else. *)
LEMMA ShutKeeps ==
  ASSUME IInv, NEW a \in Admins, Shut(a)
  PROVE  IInv'
<1> USE CoresAssumption DEF NoCore, Nowhere, recordVars, diskVars, watchVars, callVars, adminVars,
        ghostVars, Shut, Ended
<1>1. TypeOK'
  <2>1. todo' \in [Admins -> Seq(AdminStep)]
    BY ScriptAdvances DEF At
  <2>2. cores' \in Seq(Core) /\ Len(cores') = Len(cores)
    <3>1. CASE held[a] = NoCore
      BY <3>1 DEF TypeOK, IInv
    <3>2. CASE held[a] # NoCore
      BY <3>2, LifeChanges DEF TypeOK, IInv
    <3> QED BY <3>1, <3>2
  <2>3. held' \in [Admins -> CoreId \cup {NoCore}]
    BY DEF TypeOK, IInv
  <2> QED BY <2>1, <2>2, <2>3 DEF TypeOK, CoreId, IInv
<1>2. StopsGoOn'
  <2>1. held[a] = NoCore \/ At(a, "shut")
    BY DEF StopsGoOn, IInv
  <2>2. \A b \in Admins \ {a} : held'[b] = held[b] /\ todo'[b] = todo[b]
    BY ScriptAdvances DEF At
  <2>3. held'[a] = NoCore
    BY <2>1 DEF TypeOK, IInv
  <2> QED BY <2>2, <2>3, ScriptAdvances DEF StopsGoOn, At, IInv
<1>3. StagesAgree'
  BY DEF StagesAgree, IInv
<1>4. StartsAreOwn'
  BY DEF StartsAreOwn, Stopping, IInv
<1>5. HandsReachOne'
  BY DEF HandsReachOne, Alive, Stopping, TypeOK, CoreId, IInv
<1>6. NoneWasted'
  <2>1. CASE held[a] = NoCore
    <3>1. UNCHANGED <<cores, held>>
      BY <2>1 DEF TypeOK, IInv
    <3> QED BY <3>1 DEF NoneWasted, Stopping, Alive, CoreId, IInv
  <2>2. CASE held[a] # NoCore
    <3>1. held[a] \in CoreId
      BY <2>2 DEF TypeOK, IInv
    <3>2. /\ Len(cores') = Len(cores) /\ cores'[held[a]].life = "stopped"
          /\ \A q \in CoreId \ {held[a]} : cores'[q] = cores[q]
      BY <2>2, <3>1, LifeChanges DEF IInv
    <3>3. \A b \in Admins \ {a} : held'[b] = held[b]
      BY DEF TypeOK, IInv
    <3> QED BY <3>1, <3>2, <3>3 DEF NoneWasted, Stopping, Alive, CoreId, IInv
  <2> QED BY <2>1, <2>2
<1>7. MapNotStopped'
  BY DEF MapNotStopped, Stopping, IInv
<1> QED BY <1>1, <1>2, <1>3, <1>4, <1>5, <1>6, <1>7 DEF IInv

(* Asking who owns the directory touches no process. *)
LEMMA OwnerKeeps ==
  ASSUME IInv, NEW a \in Admins, Owner(a)
  PROVE  IInv'
<1> USE CoresAssumption DEF NoCore, Nowhere, recordVars, diskVars, watchVars, callVars, adminVars,
        ghostVars, Owner
<1>1. TypeOK'
  <2>1. todo' \in [Admins -> Seq(AdminStep)]
    BY ScriptAdvances DEF At
  <2> QED BY <2>1 DEF TypeOK, CoreId, IInv, Kind
<1>2. StopsGoOn'
  <2>1. held[a] = NoCore \/ At(a, "shut")
    BY DEF StopsGoOn, IInv
  <2>2. \A b \in Admins \ {a} : held'[b] = held[b] /\ todo'[b] = todo[b]
    BY ScriptAdvances DEF At
  <2>3. held'[a] = NoCore
    BY <2>1 DEF At
  <2> QED BY <2>2, <2>3, ScriptAdvances DEF StopsGoOn, At, IInv
<1>3. StagesAgree'
  BY DEF StagesAgree, IInv
<1>4. StartsAreOwn'
  BY DEF StartsAreOwn, Stopping, IInv
<1>5. HandsReachOne'
  BY DEF HandsReachOne, Alive, Stopping, IInv
<1>6. NoneWasted'
  BY DEF NoneWasted, CoreId, Alive, Stopping, IInv
<1>7. MapNotStopped'
  BY DEF MapNotStopped, Stopping, IInv
<1> QED BY <1>1, <1>2, <1>3, <1>4, <1>5, <1>6, <1>7 DEF IInv

(* Forgetting the record touches no process. *)
LEMMA RemoveKeeps ==
  ASSUME IInv, NEW a \in Admins, Remove(a)
  PROVE  IInv'
<1> USE CoresAssumption DEF NoCore, Nowhere, recordVars, diskVars, watchVars, callVars, adminVars,
        ghostVars, Remove
<1>1. TypeOK'
  <2>1. todo' \in [Admins -> Seq(AdminStep)]
    BY ScriptAdvances DEF At, GoesOnIf
  <2> QED BY <2>1 DEF TypeOK, CoreId, IInv
<1>2. StopsGoOn'
  <2>1. held[a] = NoCore \/ At(a, "shut")
    BY DEF StopsGoOn, IInv
  <2>2. \A b \in Admins \ {a} : held'[b] = held[b] /\ todo'[b] = todo[b]
    BY ScriptAdvances DEF At, GoesOnIf
  <2>3. held'[a] = NoCore
    BY <2>1 DEF At
  <2> QED BY <2>2, <2>3, ScriptAdvances DEF StopsGoOn, At, GoesOnIf, IInv
<1>3. StagesAgree'
  BY DEF StagesAgree, IInv
<1>4. StartsAreOwn'
  BY DEF StartsAreOwn, Stopping, IInv
<1>5. HandsReachOne'
  BY DEF HandsReachOne, Alive, Stopping, IInv
<1>6. NoneWasted'
  BY DEF NoneWasted, CoreId, Alive, Stopping, IInv
<1>7. MapNotStopped'
  BY DEF MapNotStopped, Stopping, IInv
<1> QED BY <1>1, <1>2, <1>3, <1>4, <1>5, <1>6, <1>7 DEF IInv

(* Deleting the directory of what was uninstalled touches no process. *)
LEMMA DiscardKeeps ==
  ASSUME IInv, NEW a \in Admins, Discard(a)
  PROVE  IInv'
<1> USE CoresAssumption DEF NoCore, Nowhere, recordVars, diskVars, watchVars, callVars, adminVars,
        ghostVars, Discard, Blinded, Notices
<1>1. TypeOK'
  <2>1. todo' \in [Admins -> Seq(AdminStep)]
    BY ScriptAdvances DEF At
  <2>2. watch' \in WatchType \cup {NoWatch}
    <3>1. CASE UNCHANGED watch
      BY <3>1 DEF TypeOK, IInv
    <3>2. CASE watch.kind = "release" /\ watch' = [watch EXCEPT !.sees = {}]
      <4>1. watch \in WatchType
        BY <3>2 DEF TypeOK, IInv, NoWatch
      <4> QED BY <3>2, <4>1 DEF WatchType
    <3> QED BY <3>1, <3>2
  <2>3. event' \in BOOLEAN
    BY Zenon DEF TypeOK, IInv
  <2>4. disk' \in [Kind -> 0..MaxBuilds]
    BY DEF TypeOK, Kind, IInv
  <2>5. want' \in [Admins -> Kind \cup {Nowhere}]
    BY DEF TypeOK, IInv
  <2> QED BY <2>1, <2>2, <2>3, <2>4, <2>5 DEF TypeOK, CoreId, IInv, WatchType
<1>2. StopsGoOn'
  <2>1. held[a] = NoCore \/ At(a, "shut")
    BY DEF StopsGoOn, IInv
  <2>2. \A b \in Admins \ {a} : held'[b] = held[b] /\ todo'[b] = todo[b]
    BY ScriptAdvances DEF At
  <2>3. held'[a] = NoCore
    BY <2>1 DEF At
  <2> QED BY <2>2, <2>3, ScriptAdvances DEF StopsGoOn, At, IInv
<1>3. StagesAgree'
  BY DEF StagesAgree, IInv
<1>4. StartsAreOwn'
  BY DEF StartsAreOwn, Stopping, IInv
<1>5. HandsReachOne'
  BY DEF HandsReachOne, Alive, Stopping, IInv
<1>6. NoneWasted'
  BY DEF NoneWasted, CoreId, Alive, Stopping, IInv
<1>7. MapNotStopped'
  BY DEF MapNotStopped, Stopping, IInv
<1> QED BY <1>1, <1>2, <1>3, <1>4, <1>5, <1>6, <1>7 DEF IInv

(* Deleting the old release touches no process. *)
LEMMA ClearKeeps ==
  ASSUME IInv, NEW a \in Admins, Clear(a)
  PROVE  IInv'
<1> USE CoresAssumption DEF NoCore, Nowhere, recordVars, diskVars, watchVars, callVars, adminVars,
        ghostVars, Clear, Blinded, Notices
<1>1. TypeOK'
  <2>1. todo' \in [Admins -> Seq(AdminStep)]
    BY ScriptAdvances DEF At
  <2>2. watch' \in WatchType \cup {NoWatch}
    <3>1. CASE UNCHANGED watch
      BY <3>1 DEF TypeOK, IInv
    <3>2. CASE watch.kind = "release" /\ watch' = [watch EXCEPT !.sees = {}]
      <4>1. watch \in WatchType
        BY <3>2 DEF TypeOK, IInv, NoWatch
      <4> QED BY <3>2, <4>1 DEF WatchType
    <3> QED BY <3>1, <3>2
  <2>3. event' \in BOOLEAN
    BY Zenon DEF TypeOK, IInv
  <2>4. disk' \in [Kind -> 0..MaxBuilds]
    BY DEF TypeOK, Kind, IInv
  <2> QED BY <2>1, <2>2, <2>3, <2>4 DEF TypeOK, CoreId, IInv, WatchType
<1>2. StopsGoOn'
  <2>1. held[a] = NoCore \/ At(a, "shut")
    BY DEF StopsGoOn, IInv
  <2>2. \A b \in Admins \ {a} : held'[b] = held[b] /\ todo'[b] = todo[b]
    BY ScriptAdvances DEF At
  <2>3. held'[a] = NoCore
    BY <2>1 DEF At
  <2> QED BY <2>2, <2>3, ScriptAdvances DEF StopsGoOn, At, IInv
<1>3. StagesAgree'
  BY DEF StagesAgree, IInv
<1>4. StartsAreOwn'
  BY DEF StartsAreOwn, Stopping, IInv
<1>5. HandsReachOne'
  BY DEF HandsReachOne, Alive, Stopping, IInv
<1>6. NoneWasted'
  BY DEF NoneWasted, CoreId, Alive, Stopping, IInv
<1>7. MapNotStopped'
  BY DEF MapNotStopped, Stopping, IInv
<1> QED BY <1>1, <1>2, <1>3, <1>4, <1>5, <1>6, <1>7 DEF IInv

(* Placing the new release, or failing to, touches no process. *)
LEMMA PlaceKeeps ==
  ASSUME IInv, NEW a \in Admins, Place(a)
  PROVE  IInv'
<1> USE CoresAssumption DEF NoCore, Nowhere, recordVars, diskVars, watchVars, callVars, adminVars,
        ghostVars, Place
<1>1. TypeOK'
  <2>1. todo' \in [Admins -> Seq(AdminStep)]
    BY ScriptAdvances DEF At
  <2> QED BY <2>1 DEF TypeOK, CoreId, IInv, Kind
<1>2. StopsGoOn'
  <2>1. held[a] = NoCore \/ At(a, "shut")
    BY DEF StopsGoOn, IInv
  <2>2. \A b \in Admins \ {a} : held'[b] = held[b] /\ todo'[b] = todo[b]
    BY ScriptAdvances DEF At
  <2>3. held'[a] = NoCore
    BY <2>1 DEF At
  <2> QED BY <2>2, <2>3, ScriptAdvances DEF StopsGoOn, At, IInv
<1>3. StagesAgree'
  BY DEF StagesAgree, IInv
<1>4. StartsAreOwn'
  BY DEF StartsAreOwn, Stopping, IInv
<1>5. HandsReachOne'
  BY DEF HandsReachOne, Alive, Stopping, IInv
<1>6. NoneWasted'
  BY DEF NoneWasted, CoreId, Alive, Stopping, IInv
<1>7. MapNotStopped'
  BY DEF MapNotStopped, Stopping, IInv
<1> QED BY <1>1, <1>2, <1>3, <1>4, <1>5, <1>6, <1>7 DEF IInv

(* Reading what is to be watched touches no process. *)
LEMMA ReadKeeps ==
  ASSUME IInv, NEW a \in Admins, Read(a)
  PROVE  IInv'
<1> USE CoresAssumption DEF NoCore, Nowhere, recordVars, diskVars, watchVars, callVars, adminVars,
        ghostVars, Read, Wanted
<1>1. TypeOK'
  <2>1. todo' \in [Admins -> Seq(AdminStep)]
    BY ScriptAdvances DEF At
  <2> QED BY <2>1 DEF TypeOK, CoreId, IInv, Kind
<1>2. StopsGoOn'
  <2>1. held[a] = NoCore \/ At(a, "shut")
    BY DEF StopsGoOn, IInv
  <2>2. \A b \in Admins \ {a} : held'[b] = held[b] /\ todo'[b] = todo[b]
    BY ScriptAdvances DEF At
  <2>3. held'[a] = NoCore
    BY <2>1 DEF At
  <2> QED BY <2>2, <2>3, ScriptAdvances DEF StopsGoOn, At, IInv
<1>3. StagesAgree'
  BY DEF StagesAgree, IInv
<1>4. StartsAreOwn'
  BY DEF StartsAreOwn, Stopping, IInv
<1>5. HandsReachOne'
  BY DEF HandsReachOne, Alive, Stopping, IInv
<1>6. NoneWasted'
  BY DEF NoneWasted, CoreId, Alive, Stopping, IInv
<1>7. MapNotStopped'
  BY DEF MapNotStopped, Stopping, IInv
<1> QED BY <1>1, <1>2, <1>3, <1>4, <1>5, <1>6, <1>7 DEF IInv

(* A watch that comes or goes touches no process. *)
LEMMA SyncKeeps ==
  ASSUME IInv, NEW a \in Admins, Sync(a)
  PROVE  IInv'
<1> USE CoresAssumption DEF NoCore, Nowhere, recordVars, diskVars, watchVars, callVars, adminVars,
        ghostVars, Sync, Watching, Seen
<1>1. TypeOK'
  <2>1. todo' \in [Admins -> Seq(AdminStep)]
    BY ScriptAdvances DEF At
  <2>2. watch' \in WatchType \cup {NoWatch}
    <3>1. CASE UNCHANGED watch \/ watch' = NoWatch
      BY <3>1 DEF TypeOK, IInv
    <3>2. CASE want[a] # Nowhere /\ \E d \in Debouncers : watch' = Watching(want[a], d)
      <4>1. want[a] \in Kind
        BY <3>2 DEF TypeOK, IInv
      <4> QED BY <3>2, <4>1 DEF TypeOK, IInv, WatchType
    <3> QED BY <3>1, <3>2
  <2>3. event' \in BOOLEAN /\ want' \in [Admins -> Kind \cup {Nowhere}]
    BY DEF TypeOK, IInv
  <2> QED BY <2>1, <2>2, <2>3 DEF TypeOK, CoreId, IInv, WatchType
<1>2. StopsGoOn'
  <2>1. GoesOn(a) \/ Ends(a)
    BY DEF GoesOnIf
  <2>2. todo[a] # <<>> /\ ~At(a, "shut")
    BY DEF At
  <2>3. held[a] = NoCore /\ held' = held
    BY <2>2 DEF StopsGoOn, IInv
  <2>4. \A b \in Admins \ {a} : todo'[b] = todo[b]
    BY <2>1, <2>2, ScriptAdvances
  <2>5. \A k \in 1..Len(todo'[a]) : todo'[a][k] = "take" =>
          k < Len(todo'[a]) /\ todo'[a][k + 1] = "shut"
    BY <2>1, <2>2, ScriptAdvances
  <2>6. \A b \in Admins : held'[b] # NoCore => At(b, "shut")'
    BY <2>3, <2>4 DEF StopsGoOn, At, IInv
  <2>7. \A b \in Admins : \A k \in 1..Len(todo'[b]) : todo'[b][k] = "take" =>
          k < Len(todo'[b]) /\ todo'[b][k + 1] = "shut"
    BY <2>4, <2>5 DEF StopsGoOn, IInv
  <2> QED BY <2>6, <2>7 DEF StopsGoOn
<1>3. StagesAgree'
  BY DEF StagesAgree, IInv
<1>4. StartsAreOwn'
  BY DEF StartsAreOwn, Stopping, IInv
<1>5. HandsReachOne'
  BY DEF HandsReachOne, Alive, Stopping, IInv
<1>6. NoneWasted'
  BY DEF NoneWasted, CoreId, Alive, Stopping, IInv
<1>7. MapNotStopped'
  BY DEF MapNotStopped, Stopping, IInv
<1> QED BY <1>1, <1>2, <1>3, <1>4, <1>5, <1>6, <1>7 DEF IInv

(* A build touches no process. *)
LEMMA BuildKeeps ==
  ASSUME IInv, Build
  PROVE  IInv'
<1> USE CoresAssumption DEF NoCore, Nowhere, recordVars, diskVars, watchVars, callVars, adminVars,
        ghostVars, Build
<1>1. TypeOK'
  <2>1. made' \in 0..MaxBuilds /\ made + 1 \in 0..MaxBuilds
    BY DEF TypeOK, IInv
  <2>3. disk' \in [Kind -> 0..MaxBuilds]
    BY <2>1 DEF TypeOK, IInv
  <2>2. event' \in BOOLEAN
    BY Zenon DEF TypeOK, IInv
  <2> QED BY <2>1, <2>2, <2>3 DEF TypeOK, CoreId, IInv
<1>2. StopsGoOn'
  BY DEF StopsGoOn, At, IInv
<1>3. StagesAgree'
  BY DEF StagesAgree, IInv
<1>4. StartsAreOwn'
  BY DEF StartsAreOwn, Stopping, IInv
<1>5. HandsReachOne'
  BY DEF HandsReachOne, Alive, Stopping, IInv
<1>6. NoneWasted'
  BY DEF NoneWasted, CoreId, Alive, Stopping, IInv
<1>7. MapNotStopped'
  BY DEF MapNotStopped, Stopping, IInv
<1> QED BY <1>1, <1>2, <1>3, <1>4, <1>5, <1>6, <1>7 DEF IInv

(* A reload is an operation that shuts down what it takes. *)
LEMMA DebounceKeeps ==
  ASSUME IInv, Debounce
  PROVE  IInv'
<1> USE CoresAssumption DEF NoCore, Nowhere, recordVars, diskVars, watchVars, callVars, adminVars,
        ghostVars, Debounce
<1>1. TypeOK'
  <2>1. ReloadScript \in Seq(AdminStep)
    BY ScriptsStop DEF Stops
  <2>2. watch.by \in Admins
    BY DEF TypeOK, IInv, Admins, WatchType
  <2>3. todo' \in [Admins -> Seq(AdminStep)]
    BY <2>1, <2>2 DEF TypeOK, IInv
  <2> QED BY <2>3 DEF TypeOK, CoreId, IInv
<1>2. StopsGoOn'
  <2>1. watch.by \in Admins /\ held[watch.by] = NoCore
    BY DEF StopsGoOn, At, TypeOK, Admins, WatchType, IInv
  <2>2. Stops(todo'[watch.by]) /\ \A b \in Admins \ {watch.by} : todo'[b] = todo[b]
    BY <2>1, ScriptsStop DEF TypeOK, IInv
  <2> QED BY <2>1, <2>2 DEF StopsGoOn, Stops, At, IInv
<1>3. StagesAgree'
  BY DEF StagesAgree, IInv
<1>4. StartsAreOwn'
  BY DEF StartsAreOwn, Stopping, IInv
<1>5. HandsReachOne'
  BY DEF HandsReachOne, Alive, Stopping, IInv
<1>6. NoneWasted'
  BY DEF NoneWasted, CoreId, Alive, Stopping, IInv
<1>7. MapNotStopped'
  BY DEF MapNotStopped, Stopping, IInv
<1> QED BY <1>1, <1>2, <1>3, <1>4, <1>5, <1>6, <1>7 DEF IInv

(* Every step keeps the invariant. *)
LEMMA NextKeeps ==
  ASSUME IInv, [Next]_vars
  PROVE  IInv'
<1>1. CASE Next
  BY <1>1, CallKeeps, LocateKeeps, StartKeeps, GreetKeeps, GreetFailsKeeps, LandKeeps,
     LandSecondKeeps, YieldKeeps, ReturnKeeps, CrashKeeps, BeginKeeps, CheckKeeps, RecordKeeps,
     SwitchKeeps, TakeKeeps, ShutKeeps, OwnerKeeps, RemoveKeeps, DiscardKeeps, ClearKeeps,
     PlaceKeeps, ReadKeeps, SyncKeeps, BuildKeeps, DebounceKeeps DEF Next
<1>2. CASE UNCHANGED vars
  <2> USE <1>2 DEF vars, recordVars, diskVars, watchVars, callVars, adminVars, ghostVars
  <2>1. TypeOK' /\ StopsGoOn' /\ StagesAgree'
    BY DEF IInv, TypeOK, CoreId, StagesAgree, StopsGoOn, At
  <2>2. StartsAreOwn' /\ HandsReachOne'
    BY DEF IInv, StartsAreOwn, HandsReachOne, Stopping, Alive
  <2>3. NoneWasted' /\ MapNotStopped'
    BY DEF IInv, NoneWasted, MapNotStopped, Stopping, Alive, CoreId
  <2> QED BY <2>1, <2>2, <2>3 DEF IInv
<1> QED BY <1>1, <1>2

(* The invariant holds at first: nothing is installed, nothing runs. *)
LEMMA InitHolds ==
  ASSUME Init
  PROVE  IInv
<1> USE CoresAssumption DEF Init, NoCore, Nowhere
<1>1. TypeOK
  <2>1. /\ disk \in [Kind -> 0..MaxBuilds] /\ made \in 0..MaxBuilds /\ ops \in 0..MaxOps
    BY DEF Kind
  <2>4. /\ source \in Kind \cup {Nowhere} /\ enabled \in BOOLEAN /\ event \in BOOLEAN
        /\ watch \in WatchType \cup {NoWatch} /\ (enabled => source # Nowhere)
    OBVIOUS
  <2>2. cores \in Seq(Core) /\ Len(cores) = 0
    BY EmptySeq
  <2>3. /\ stage \in [Callers -> CallStage] /\ path \in [Callers -> Kind \cup {Nowhere}]
        /\ todo \in [Admins -> Seq(AdminStep)] /\ want \in [Admins -> Kind \cup {Nowhere}]
    BY EmptySeq DEF CallStage
  <2> QED BY <2>1, <2>2, <2>3, <2>4 DEF TypeOK, CoreId
<1>2. StopsGoOn /\ StagesAgree /\ StartsAreOwn
  BY EmptySeq DEF StopsGoOn, At, StagesAgree, StartsAreOwn, Starting, Holding
<1>3. HandsReachOne /\ NoneWasted /\ MapNotStopped
  BY EmptySeq DEF HandsReachOne, NoneWasted, MapNotStopped, CoreId
<1> QED BY <1>1, <1>2, <1>3 DEF IInv

-----------------------------------------------------------------------------
(* The theorems *)

(* The invariant the others rest on holds in every state. *)
THEOREM CoresInv == Spec => []IInv
<1>1. Init => IInv
  BY InitHolds
<1>2. IInv /\ [Next]_vars => IInv'
  BY NextKeeps
<1> QED BY <1>1, <1>2, PTL DEF Spec

(* Every variable of the broker, the registry and the watches holds what   *)
(* its declaration says: no call, map or stop names a process never started. *)
THEOREM CoresTypeCorrect == Spec => []TypeOK
<1>1. IInv => TypeOK
  BY DEF IInv
<1> QED BY <1>1, CoresInv, PTL

(* However many calls race for a plugin that has not been started, and     *)
(* whatever is stopped and reloaded meanwhile, calls that are answered are *)
(* answered by the one core of the map, or by one just taken out of it.    *)
THEOREM CallsReachOneAlways == Spec => []CallsReachOne
<1>1. IInv => CallsReachOne
  BY DEF IInv, HandsReachOne, StagesAgree, Holding, CallsReachOne
<1> QED BY <1>1, CoresInv, PTL

(* No race of starts and stops leaves a process running that nothing will  *)
(* ever ask or end.                                                        *)
THEOREM NoneWastedAlways == Spec => []NoneWasted
<1>1. IInv => NoneWasted
  BY DEF IInv
<1> QED BY <1>1, CoresInv, PTL

(* The broker's map never offers a core the shell has ended or is ending.  *)
THEOREM MapNotStoppedAlways == Spec => []MapNotStopped
<1>1. IInv => MapNotStopped
  BY DEF IInv
<1> QED BY <1>1, CoresInv, PTL

-----------------------------------------------------------------------------
(* What becomes of an old build *)

BeforeTake == {"check", "mayInstall", "record", "switchOff"}

(* Only guards and the record come before a stop; the record of a folder is *)
(* followed by one; a release is put where the last one was cleared away.   *)
WellOrdered(s) ==
  \A k \in 1..Len(s) :
    /\ s[k] = "take" => \A j \in 1..(k - 1) : s[j] \in BeforeTake
    /\ s[k] = "record" => k < Len(s) /\ s[k + 1] = "take"
    /\ s[k] = "place" => k = 1 \/ s[k - 1] = "clear"

HasTake(s) == \E k \in 1..Len(s) : s[k] = "take"
HasPlace(s) == \E k \in 1..Len(s) : s[k] = "place"

ScriptsOrdered ==
  \A a \in Admins :
    /\ WellOrdered(todo[a])
    /\ a # Worker => ~HasPlace(todo[a])
    /\ At(a, "place") => disk["release"] = 0

(* A watch of a release sees it only as long as it is the one it was made   *)
(* of.                                                                     *)
WatchInv ==
  /\ "bin" \in watch.sees => "root" \in watch.sees
  /\ watch.kind = "release" /\ watch.sees # {} =>
       disk["release"] # 0 /\ watch.since = disk["release"]

(* The core is on its way out: an event waits, or a stop is to come. *)
ReloadComes == event \/ \E a \in Admins : HasTake(todo[a])

Stale(p) ==
  /\ source = "folder" /\ cores[p].from = "folder"
  /\ watch.kind = "folder" /\ "bin" \in watch.sees /\ watch.since < disk["folder"]
  /\ cores[p].build < disk["folder"]

(* `OldBuildGoes` of every state, quiet or not, and of cores still starting. *)
ReloadInv ==
  /\ running # NoCore /\ Stale(running) => ReloadComes \/ running \in late
  /\ \A c \in Callers : stage[c] \in {"greeting", "landing"} /\ Stale(spawned[c]) =>
       ReloadComes \/ c \in overtaken

(* A script that has taken a step is as well ordered as before. *)
LEMMA TailOrdered ==
  ASSUME NEW s \in Seq(AdminStep), s # <<>>, WellOrdered(s)
  PROVE  /\ WellOrdered(Tail(s))
         /\ HasTake(s) /\ Head(s) # "take" => HasTake(Tail(s)) /\ Head(s) \in BeforeTake
         /\ Head(s) = "record" => HasTake(Tail(s))
         /\ HasPlace(Tail(s)) => HasPlace(s)
         /\ Tail(s) # <<>> /\ Head(Tail(s)) = "place" => Head(s) = "clear"
<1>1. /\ Len(s) \in Nat \ {0} /\ Len(Tail(s)) = Len(s) - 1 /\ Head(s) = s[1]
      /\ \A k \in 1..Len(Tail(s)) : Tail(s)[k] = s[k + 1]
  BY HeadTailProperties, EmptySeq
<1>. DEFINE t == Tail(s)
<1>. HIDE DEF t
<1>2. Len(t) = Len(s) - 1 /\ \A k \in 1..Len(t) : t[k] = s[k + 1]
  BY <1>1 DEF t
<1>3. WellOrdered(t)
  <2>1. ASSUME NEW k \in 1..Len(t)
        PROVE  /\ t[k] = "take" => \A j \in 1..(k - 1) : t[j] \in BeforeTake
               /\ t[k] = "record" => k < Len(t) /\ t[k + 1] = "take"
               /\ t[k] = "place" => k = 1 \/ t[k - 1] = "clear"
    <3>1. k + 1 \in 1..Len(s) /\ t[k] = s[k + 1]
      BY <1>1, <1>2
    <3>2. ASSUME t[k] = "take", NEW j \in 1..(k - 1)
          PROVE  t[j] \in BeforeTake
      <4>1. j + 1 \in 1..((k + 1) - 1) /\ j \in 1..Len(t)
        BY <1>1, <1>2
      <4>2. s[j + 1] \in BeforeTake
        BY <3>1, <3>2, <4>1 DEF WellOrdered
      <4> QED BY <1>2, <4>1, <4>2
    <3>3. ASSUME t[k] = "record"
          PROVE  k < Len(t) /\ t[k + 1] = "take"
      <4>1. k + 1 < Len(s) /\ s[(k + 1) + 1] = "take"
        BY <3>1, <3>3 DEF WellOrdered
      <4>2. k + 1 \in 1..Len(t)
        BY <1>1, <1>2, <4>1
      <4> QED BY <1>1, <1>2, <4>1, <4>2
    <3>4. ASSUME t[k] = "place"
          PROVE  k = 1 \/ t[k - 1] = "clear"
      <4>1. k + 1 = 1 \/ s[(k + 1) - 1] = "clear"
        BY <3>1, <3>4 DEF WellOrdered
      <4>2. s[k] = "clear"
        BY <1>1, <1>2, <4>1
      <4>3. k = 1 \/ (k - 1 \in 1..Len(t) /\ (k - 1) + 1 = k)
        BY <1>1, <1>2
      <4> QED BY <1>2, <4>2, <4>3
    <3> QED BY <3>2, <3>3, <3>4
  <2> QED BY <2>1 DEF WellOrdered
<1>4. ASSUME HasTake(s), Head(s) # "take"
      PROVE  HasTake(t) /\ Head(s) \in BeforeTake
  <2>1. PICK k \in 1..Len(s) : s[k] = "take"
    BY <1>4 DEF HasTake
  <2>2. k # 1 /\ k - 1 \in 1..Len(t) /\ t[k - 1] = s[k]
    BY <1>1, <1>2, <1>4, <2>1
  <2>3. 1 \in 1..(k - 1)
    BY <1>1, <2>1, <2>2
  <2>4. s[1] \in BeforeTake
    BY <2>1, <2>3 DEF WellOrdered
  <2> QED BY <1>1, <2>1, <2>2, <2>4 DEF HasTake
<1>5. ASSUME Head(s) = "record"
      PROVE  HasTake(t)
  <2>1. 1 < Len(s) /\ s[2] = "take"
    BY <1>1, <1>5 DEF WellOrdered
  <2> QED BY <1>1, <1>2, <2>1 DEF HasTake
<1>6. HasPlace(t) => HasPlace(s)
  BY <1>1, <1>2 DEF HasPlace
<1>7. ASSUME t # <<>>, Head(t) = "place"
      PROVE  Head(s) = "clear"
  <2>1. t \in Seq(AdminStep) /\ Len(t) # 0 /\ Head(t) = t[1]
    BY <1>1, <1>7, EmptySeq, HeadTailProperties DEF t
  <2>2. 2 \in 1..Len(s) /\ s[2] = "place"
    BY <1>1, <1>2, <1>7, <2>1
  <2> QED BY <1>1, <2>2 DEF WellOrdered
<1> QED BY <1>3, <1>4, <1>5, <1>6, <1>7 DEF t

LEMMA EmptyOrdered == WellOrdered(<<>>) /\ ~HasTake(<<>>) /\ ~HasPlace(<<>>)
<1>1. Len(<<>>) = 0 /\ 1..0 = {}
  OBVIOUS
<1> QED BY <1>1 DEF WellOrdered, HasTake, HasPlace

LEMMA ScriptsAreOrdered ==
  /\ \A s \in {InstallScript, UninstallScript, ReloadScript, EnableScript, DisableScript} :
       WellOrdered(s) /\ ~HasPlace(s) /\ s # <<>> /\ Head(s) # "place"
  /\ WellOrdered(UpgradeScript) /\ UpgradeScript # <<>> /\ Head(UpgradeScript) # "place"
  /\ HasTake(ReloadScript)
BY DEF InstallScript, UninstallScript, ReloadScript, EnableScript, DisableScript, UpgradeScript,
       WellOrdered, HasTake, HasPlace, BeforeTake

(* The thread that takes a step takes it in order, whoever else is at work. *)
LEMMA AdvanceOrdered ==
  ASSUME IInv, ScriptsOrdered, NEW a \in Admins, todo[a] # <<>>, GoesOn(a) \/ Ends(a),
         Head(todo[a]) = "clear" => disk'["release"] = 0,
         disk'["release"] \in {0, disk["release"]} \/ Head(todo[a]) = "place"
  PROVE  ScriptsOrdered'
<1>1. todo \in [Admins -> Seq(AdminStep)] /\ todo[a] \in Seq(AdminStep)
  BY DEF IInv, TypeOK
<1>2. \A b \in Admins \ {a} : todo'[b] = todo[b]
  BY <1>1, ScriptAdvances
<1>3. todo'[a] = Tail(todo[a]) \/ todo'[a] = <<>>
  BY <1>1 DEF GoesOn, Ends
<1>4. /\ WellOrdered(Tail(todo[a]))
      /\ HasPlace(Tail(todo[a])) => HasPlace(todo[a])
      /\ Tail(todo[a]) # <<>> /\ Head(Tail(todo[a])) = "place" => Head(todo[a]) = "clear"
  BY <1>1, TailOrdered DEF ScriptsOrdered
<1>5. /\ WellOrdered(todo'[a]) /\ (a # Worker => ~HasPlace(todo'[a]))
      /\ todo'[a] # <<>> /\ Head(todo'[a]) = "place" => disk'["release"] = 0
  BY <1>3, <1>4, EmptyOrdered DEF ScriptsOrdered
<1>6. ASSUME NEW b \in Admins \ {a}, todo[b] # <<>>, Head(todo[b]) = "place"
      PROVE  disk'["release"] = 0
  <2>1. ASSUME NEW d \in Admins, todo[d] # <<>>, Head(todo[d]) = "place"
        PROVE  d = Worker
    <3>1. todo[d] \in Seq(AdminStep)
      BY <1>1
    <3>2. 1 \in 1..Len(todo[d]) /\ todo[d][1] = "place"
      BY <2>1, <3>1, HeadTailProperties, EmptySeq
    <3> QED BY <3>2 DEF ScriptsOrdered, HasPlace
  <2>2. Head(todo[a]) # "place"
    BY <1>6, <2>1
  <2> QED BY <1>6, <2>2 DEF ScriptsOrdered, At
<1> QED BY <1>2, <1>5, <1>6 DEF ScriptsOrdered, At

(* And a stop that was to come still is, unless this was the stop. *)
LEMMA AdvanceComes ==
  ASSUME IInv, ScriptsOrdered, NEW a \in Admins, todo[a] # <<>>, GoesOn(a) \/ Ends(a),
         Head(todo[a]) \in BeforeTake => GoesOn(a),
         Head(todo[a]) # "take", event => event'
  PROVE  ReloadComes => ReloadComes'
<1>1. todo \in [Admins -> Seq(AdminStep)] /\ todo[a] \in Seq(AdminStep)
  BY DEF IInv, TypeOK
<1>2. \A b \in Admins \ {a} : todo'[b] = todo[b]
  BY <1>1, ScriptAdvances
<1>3. HasTake(todo[a]) => Head(todo[a]) \in BeforeTake /\ HasTake(Tail(todo[a]))
  BY <1>1, TailOrdered DEF ScriptsOrdered
<1>4. HasTake(todo[a]) => HasTake(todo'[a])
  BY <1>1, <1>3 DEF GoesOn
<1> QED BY <1>2, <1>4 DEF ReloadComes

(* What is stale was stale before, and nothing that was to end it is lost. *)
LEMMA ReloadKept ==
  ASSUME IInv, ReloadInv, ReloadComes => ReloadComes',
         source' = "folder" => source = "folder",
         disk'["folder"] = disk["folder"],
         watch'.kind = "folder" => watch' = watch,
         \A p \in CoreId : cores'[p].from = cores[p].from /\ cores'[p].build = cores[p].build,
         running' \in {running, NoCore}, late' = late,
         \A c \in Callers : stage'[c] \in {"greeting", "landing"} =>
           /\ stage[c] \in {"greeting", "landing"} /\ spawned'[c] = spawned[c]
           /\ c \in overtaken => c \in overtaken'
  PROVE  ReloadInv'
<1>1. ASSUME running' # NoCore, Stale(running)'
      PROVE  (ReloadComes \/ running \in late)'
  <2>1. running' = running /\ running \in CoreId
    BY <1>1 DEF IInv, TypeOK
  <2>2. Stale(running)
    BY <1>1, <2>1 DEF Stale
  <2> QED BY <1>1, <2>1, <2>2 DEF ReloadInv
<1>2. ASSUME NEW c \in Callers, stage'[c] \in {"greeting", "landing"}, Stale(spawned[c])'
      PROVE  (ReloadComes \/ c \in overtaken)'
  <2>1. spawned'[c] = spawned[c] /\ spawned[c] \in CoreId
    BY <1>2 DEF IInv, TypeOK, StagesAgree, Starting
  <2>2. Stale(spawned[c])
    BY <1>2, <2>1 DEF Stale
  <2> QED BY <1>2, <2>1, <2>2 DEF ReloadInv
<1> QED BY <1>1, <1>2 DEF ReloadInv

(* What ends a process changes neither where it is from nor its build. *)
LEMMA LifeOnly ==
  ASSUME TypeOK, NEW p \in CoreId, NEW life \in {"alive", "crashed", "stopped"},
         cores' = [cores EXCEPT ![p].life = life]
  PROVE  \A q \in CoreId : cores'[q].from = cores[q].from /\ cores'[q].build = cores[q].build
<1>1. cores \in Seq(Core) /\ Len(cores) \in Nat /\ p \in 1..Len(cores) /\ cores[p] \in Core
  BY DEF TypeOK, CoreId
<1>2. /\ [cores[p] EXCEPT !.life = life] \in Core
      /\ [cores[p] EXCEPT !.life = life].from = cores[p].from
      /\ [cores[p] EXCEPT !.life = life].build = cores[p].build
  BY <1>1 DEF Core
<1>3. cores' = [cores EXCEPT ![p] = [cores[p] EXCEPT !.life = life]]
  OBVIOUS
<1>4. cores'[p] = [cores[p] EXCEPT !.life = life] /\ \A q \in CoreId \ {p} : cores'[q] = cores[q]
  BY <1>1, <1>2, <1>3, ExceptSeq DEF CoreId
<1> QED BY <1>2, <1>4

(* The invariant `OldBuildGoes` needs. *)
OldInv == ScriptsOrdered /\ WatchInv /\ ReloadInv

(* What touches no script, checkout or watch leaves them in order. *)
LEMMA OrderKept ==
  ASSUME ScriptsOrdered, WatchInv, UNCHANGED <<todo, disk, watch>>
  PROVE  ScriptsOrdered' /\ WatchInv'
BY DEF ScriptsOrdered, WatchInv, At

(* A call that starts no process and lands none makes nothing stale. *)
LEMMA CallReload ==
  ASSUME IInv, OldInv, NEW c \in Callers,
         \/ Call(c) \/ Locate(c) \/ Greet(c) \/ GreetFails(c)
         \/ LandSecond(c) \/ Yield(c) \/ Return(c)
  PROVE  OldInv'
<1> USE DEF recordVars, diskVars, watchVars, callVars, adminVars, ghostVars
<1>1. /\ UNCHANGED <<source, disk, watch, event, todo, running, late>>
      /\ stage \in [Callers -> CallStage] /\ spawned \in [Callers -> CoreId \cup {NoCore}]
  BY DEF IInv, TypeOK, Call, Locate, Greet, GreetFails, LandSecond, Yield, Return
<1>2. ScriptsOrdered' /\ WatchInv'
  BY <1>1, OrderKept DEF OldInv
<1>3. \A p \in CoreId : cores'[p].from = cores[p].from /\ cores'[p].build = cores[p].build
  <2>1. CASE GreetFails(c) \/ Yield(c)
    <3>1. spawned[c] \in CoreId /\ cores' = [cores EXCEPT ![spawned[c]].life = "stopped"]
      BY <2>1 DEF IInv, TypeOK, StagesAgree, Starting, GreetFails, Yield, AfterRefusal, Ended
    <3> QED BY <3>1, LifeOnly DEF IInv
  <2>2. CASE Call(c) \/ Locate(c) \/ Greet(c) \/ LandSecond(c) \/ Return(c)
    BY <2>2 DEF Call, Locate, Greet, LandSecond, Return
  <2> QED BY <2>1, <2>2
<1>4. ASSUME NEW d \in Callers, stage'[d] \in {"greeting", "landing"}
      PROVE  /\ stage[d] \in {"greeting", "landing"} /\ spawned'[d] = spawned[d]
             /\ d \in overtaken => d \in overtaken'
  <2>1. CASE Call(c)
    BY <1>1, <1>4, <2>1 DEF Call
  <2>2. CASE Locate(c)
    BY <1>1, <1>4, <2>2 DEF Locate
  <2>3. CASE Greet(c)
    BY <1>1, <1>4, <2>3 DEF Greet
  <2>4. CASE GreetFails(c)
    BY <1>1, <1>4, <2>4 DEF GreetFails
  <2>5. CASE LandSecond(c)
    BY <1>1, <1>4, <2>5 DEF LandSecond
  <2>6. CASE Yield(c)
    BY <1>1, <1>4, <2>6 DEF Yield
  <2>7. CASE Return(c)
    BY <1>1, <1>4, <2>7 DEF Return
  <2> QED BY <2>1, <2>2, <2>3, <2>4, <2>5, <2>6, <2>7
<1>5. ReloadComes => ReloadComes'
  BY <1>1 DEF ReloadComes
<1>6. ReloadInv'
  BY <1>1, <1>3, <1>4, <1>5, ReloadKept DEF OldInv
<1> QED BY <1>2, <1>6 DEF OldInv

(* A process that starts is of the build its checkout holds. *)
LEMMA StartReload ==
  ASSUME IInv, OldInv, NEW c \in Callers, Start(c)
  PROVE  OldInv'
<1> USE DEF recordVars, diskVars, watchVars, callVars, adminVars, ghostVars
<1>1. /\ UNCHANGED <<source, disk, watch, event, todo, running, late, overtaken>>
      /\ stage \in [Callers -> CallStage] /\ spawned \in [Callers -> CoreId \cup {NoCore}]
      /\ disk \in [Kind -> 0..MaxBuilds]
  BY DEF IInv, TypeOK, Start
<1>2. ScriptsOrdered' /\ WatchInv'
  BY <1>1, OrderKept DEF OldInv
<1>3. ReloadComes => ReloadComes'
  BY <1>1 DEF ReloadComes
<1>4. CASE disk[path[c]] = 0 /\ UNCHANGED <<cores, spawned>> /\ stage' = [stage EXCEPT ![c] = "idle"]
  <2>1. \A d \in Callers : stage'[d] \in {"greeting", "landing"} => stage[d] \in {"greeting", "landing"}
    BY <1>1, <1>4
  <2> QED BY <1>1, <1>2, <1>3, <1>4, <2>1, ReloadKept DEF OldInv
<1>5. CASE disk[path[c]] # 0 /\ ~UNCHANGED cores
  <2> DEFINE new == [from |-> path[c], build |-> disk[path[c]], life |-> "alive"]
  <2>1. /\ cores' = Append(cores, new) /\ stage' = [stage EXCEPT ![c] = "greeting"]
        /\ spawned' = [spawned EXCEPT ![c] = Len(cores) + 1]
    BY <1>5 DEF Start
  <2>2. path[c] \in Kind
    BY DEF Start, IInv, TypeOK, StagesAgree
  <2>3. new \in Core
    BY <1>1, <1>5, <2>2, CoresAssumption DEF Core
  <2>4. new.from = path[c] /\ new.build = disk[path[c]]
    OBVIOUS
  <2> HIDE DEF new
  <2>5. /\ cores'[Len(cores) + 1] = new /\ Len(cores) \in Nat
        /\ \A q \in CoreId : cores'[q] = cores[q]
    BY <2>1, <2>3, CoreAdded DEF IInv
  <2>6. \A n : n = Len(cores) + 1 => ~Stale(n)'
    BY <1>1, <2>2, <2>4, <2>5 DEF Stale, Kind
  <2>7. ASSUME running' # NoCore, Stale(running)'
        PROVE  (ReloadComes \/ running \in late)'
    <3>1. running \in CoreId /\ cores'[running] = cores[running]
      BY <1>1, <2>5, <2>7 DEF IInv, TypeOK
    <3>2. Stale(running)
      BY <1>1, <2>7, <3>1 DEF Stale
    <3> QED BY <1>1, <1>3, <2>7, <3>2 DEF OldInv, ReloadInv
  <2>8. ASSUME NEW d \in Callers, stage'[d] \in {"greeting", "landing"}, Stale(spawned[d])'
        PROVE  (ReloadComes \/ d \in overtaken)'
    <3>1. d # c
      BY <1>1, <2>1, <2>6, <2>8 DEF Stale
    <3>2. stage[d] \in {"greeting", "landing"} /\ spawned'[d] = spawned[d]
      BY <1>1, <2>1, <2>8, <3>1
    <3>3. spawned[d] \in CoreId /\ cores'[spawned[d]] = cores[spawned[d]]
      BY <1>1, <2>5, <3>2 DEF IInv, StagesAgree, Starting
    <3>4. Stale(spawned[d])
      BY <1>1, <2>8, <3>2, <3>3 DEF Stale
    <3> QED BY <1>1, <1>3, <3>2, <3>4 DEF OldInv, ReloadInv
  <2> QED BY <1>2, <2>7, <2>8 DEF OldInv, ReloadInv
<1>6. disk[path[c]] # 0 => ~UNCHANGED cores
  <2>1. Len(cores) \in Nat /\ \A e : cores' = Append(cores, e) => Len(cores') = Len(cores) + 1
    BY DEF TypeOK, IInv
  <2> QED BY <2>1 DEF Start
<1> QED BY <1>4, <1>5, <1>6 DEF Start

(* A stale start that lands was overtaken, unless its reload is to come. *)
LEMMA LandReload ==
  ASSUME IInv, OldInv, NEW c \in Callers, Land(c)
  PROVE  OldInv'
<1> USE DEF recordVars, diskVars, watchVars, callVars, adminVars, ghostVars
<1>1. /\ UNCHANGED <<source, disk, watch, event, todo, cores>>
      /\ stage \in [Callers -> CallStage] /\ spawned \in [Callers -> CoreId \cup {NoCore}]
      /\ stage[c] = "landing" /\ running' = spawned[c] /\ stage' = [stage EXCEPT ![c] = "calling"]
      /\ spawned' = [spawned EXCEPT ![c] = NoCore] /\ overtaken' = overtaken \ {c}
      /\ c \in overtaken => spawned[c] \in late'
  BY DEF IInv, TypeOK, Land
<1>2. ScriptsOrdered' /\ WatchInv'
  BY <1>1, OrderKept DEF OldInv
<1>3. ReloadComes => ReloadComes'
  BY <1>1 DEF ReloadComes
<1>4. \A p : Stale(p)' => Stale(p)
  BY <1>1 DEF Stale
<1>5. ASSUME Stale(running)'
      PROVE  (ReloadComes \/ running \in late)'
  <2>1. Stale(spawned[c])
    BY <1>1, <1>5 DEF Stale
  <2> QED BY <1>1, <1>3, <2>1 DEF OldInv, ReloadInv
<1>6. ASSUME NEW d \in Callers, stage'[d] \in {"greeting", "landing"}, Stale(spawned[d])'
      PROVE  (ReloadComes \/ d \in overtaken)'
  <2>1. d # c /\ stage[d] \in {"greeting", "landing"} /\ spawned'[d] = spawned[d]
    BY <1>1, <1>6
  <2>2. Stale(spawned[d])
    BY <1>1, <1>6, <2>1 DEF Stale
  <2> QED BY <1>1, <1>3, <2>1, <2>2 DEF OldInv, ReloadInv
<1> QED BY <1>2, <1>5, <1>6 DEF OldInv, ReloadInv

(* A core that ends of itself is no newer and no older for it. *)
LEMMA CrashReload ==
  ASSUME IInv, OldInv, NEW p, Crash(p)
  PROVE  OldInv'
<1> USE DEF recordVars, diskVars, watchVars, callVars, adminVars, ghostVars
<1>1. UNCHANGED <<source, disk, watch, event, todo, running, late, stage, spawned, overtaken>>
  BY DEF Crash
<1>2. ScriptsOrdered' /\ WatchInv'
  BY <1>1, OrderKept DEF OldInv
<1>3. \A q \in CoreId : cores'[q].from = cores[q].from /\ cores'[q].build = cores[q].build
  <2>1. p \in CoreId /\ cores' = [cores EXCEPT ![p].life = "crashed"]
    BY DEF Crash, CoreId
  <2> QED BY <2>1, LifeOnly DEF IInv
<1>4. ReloadComes => ReloadComes'
  BY <1>1 DEF ReloadComes
<1> QED BY <1>1, <1>2, <1>3, <1>4, ReloadKept DEF OldInv

(* A step of an operation that neither places a build, replaces the watch   *)
(* nor stops, and ends early only where nothing could be stale.            *)
LEMMA StepReload ==
  ASSUME IInv, OldInv, NEW a \in Admins, todo[a] # <<>>, GoesOn(a) \/ Ends(a),
         Head(todo[a]) \notin {"take", "place"},
         Head(todo[a]) \in BeforeTake => GoesOn(a),
         event => event',
         source' = "folder" => source = "folder",
         disk'["folder"] = disk["folder"], disk'["release"] \in {0, disk["release"]},
         Head(todo[a]) = "clear" => disk'["release"] = 0,
         watch'.kind = "folder" => watch' = watch,
         \A p \in CoreId : cores'[p].from = cores[p].from /\ cores'[p].build = cores[p].build,
         UNCHANGED <<running, stage, spawned, ghostVars>>
  PROVE  ScriptsOrdered' /\ ReloadInv'
<1>1. ScriptsOrdered'
  BY AdvanceOrdered DEF OldInv
<1>2. ReloadComes => ReloadComes'
  BY AdvanceComes DEF OldInv
<1>3. ReloadInv'
  BY <1>2, ReloadKept DEF OldInv, ghostVars
<1> QED BY <1>1, <1>3

(* Nothing is stale unless the record is of a folder that is watched. *)
LEMMA NothingStale ==
  ASSUME IInv,
         source # "folder" \/ watch.kind # "folder" \/ "bin" \notin watch.sees
           \/ watch.since = disk["folder"]
  PROVE  ReloadInv
<1>1. disk["folder"] \in Nat
  BY CoresAssumption DEF IInv, TypeOK, Kind
<1>2. \A p : ~Stale(p)
  BY <1>1 DEF Stale
<1> QED BY <1>2 DEF ReloadInv

(* Asking, reading who owns what and shutting down end nothing that is to come. *)
LEMMA PlainStepReload ==
  ASSUME IInv, OldInv, NEW a \in Admins, Shut(a) \/ Owner(a) \/ Read(a)
  PROVE  OldInv'
<1> USE DEF recordVars, diskVars, watchVars, callVars
<1>1. /\ UNCHANGED <<source, disk, watch, event, running, stage, spawned, ghostVars>>
      /\ todo[a] # <<>> /\ GoesOn(a) /\ Head(todo[a]) \in {"shut", "owner", "read"}
  BY DEF Shut, Owner, Read, At, ghostVars
<1>2. \A p \in CoreId : cores'[p].from = cores[p].from /\ cores'[p].build = cores[p].build
  <2>1. CASE Shut(a) /\ held[a] # NoCore
    <3>1. held[a] \in CoreId /\ cores' = [cores EXCEPT ![held[a]].life = "stopped"]
      BY <2>1 DEF IInv, TypeOK, Shut, Ended
    <3> QED BY <3>1, LifeOnly DEF IInv
  <2>2. CASE ~(Shut(a) /\ held[a] # NoCore)
    BY <2>2 DEF Shut, Owner, Read
  <2> QED BY <2>1, <2>2
<1>3. Head(todo[a]) \notin {"take", "place", "clear"}
  BY <1>1
<1>4. ScriptsOrdered' /\ ReloadInv'
  BY <1>1, <1>2, <1>3, StepReload
<1>5. WatchInv'
  BY <1>1 DEF OldInv, WatchInv
<1> QED BY <1>4, <1>5 DEF OldInv

(* A guard that ends a reload has found no folder recorded. *)
LEMMA GuardReload ==
  ASSUME IInv, OldInv, NEW a \in Admins, Check(a) \/ Switch(a)
  PROVE  OldInv'
<1> USE DEF recordVars, diskVars, watchVars, callVars
<1>1. /\ UNCHANGED <<source, disk, watch, event, running, cores, stage, spawned, ghostVars>>
      /\ todo[a] # <<>>
      /\ Head(todo[a]) \in {"check", "mayInstall", "mayUpgrade", "switchOn", "switchOff"}
      /\ GoesOn(a) \/ Ends(a)
      /\ Ends(a) /\ ~GoesOn(a) => source # "folder" \/ Head(todo[a]) = "mayUpgrade"
  BY DEF Check, Switch, At, GoesOnIf, ghostVars, Nowhere
<1>2. WatchInv'
  BY <1>1 DEF OldInv, WatchInv
<1>3. Head(todo[a]) \notin {"take", "place", "clear"}
  BY <1>1
<1>4. CASE source = "folder"
  <2>1. Head(todo[a]) \in BeforeTake => GoesOn(a)
    BY <1>1, <1>4 DEF BeforeTake
  <2> QED BY <1>1, <1>2, <1>3, <2>1, StepReload DEF OldInv
<1>5. CASE source # "folder"
  <2>1. ScriptsOrdered'
    BY <1>1, <1>3, AdvanceOrdered DEF OldInv
  <2>2. (IInv /\ source # "folder" => ReloadInv)'
    BY NothingStale, PTL
  <2>3. IInv'
    BY CheckKeeps, SwitchKeeps
  <2> QED BY <1>1, <1>2, <1>5, <2>1, <2>2, <2>3 DEF OldInv
<1> QED BY <1>4, <1>5

(* A folder is recorded by an operation that stops next. *)
LEMMA RecordReload ==
  ASSUME IInv, OldInv, NEW a \in Admins, Record(a)
  PROVE  OldInv'
<1> USE DEF recordVars, diskVars, watchVars, callVars
<1>1. /\ UNCHANGED <<disk, watch, event, running, cores, stage, spawned, ghostVars>>
      /\ todo[a] # <<>> /\ GoesOn(a)
      /\ \/ Head(todo[a]) = "record" /\ source' = "folder"
         \/ Head(todo[a]) = "recordRelease" /\ source' = "release"
  BY DEF Record, At, ghostVars
<1>2. WatchInv'
  BY <1>1 DEF OldInv, WatchInv
<1>3. ScriptsOrdered'
  BY <1>1, AdvanceOrdered DEF OldInv
<1>4. CASE source' = "folder"
  <2>1. todo[a] \in Seq(AdminStep) /\ todo \in [Admins -> Seq(AdminStep)]
    BY DEF IInv, TypeOK
  <2>2. HasTake(Tail(todo[a]))
    BY <1>1, <1>4, <2>1, TailOrdered DEF OldInv, ScriptsOrdered
  <2>3. todo'[a] = Tail(todo[a])
    BY <1>1, <2>1 DEF GoesOn
  <2>4. ReloadComes'
    BY <2>2, <2>3 DEF ReloadComes
  <2> QED BY <1>2, <1>3, <2>4 DEF OldInv, ReloadInv
<1>5. CASE source' # "folder"
  <2>1. (IInv /\ source # "folder" => ReloadInv)'
    BY NothingStale, PTL
  <2> QED BY <1>2, <1>3, <1>5, <2>1, RecordKeeps DEF OldInv
<1> QED BY <1>4, <1>5

(* A stop takes what is in the map and overtakes every start. *)
LEMMA TakeReload ==
  ASSUME IInv, OldInv, NEW a \in Admins, Take(a)
  PROVE  OldInv'
<1> USE DEF recordVars, diskVars, watchVars, callVars
<1>1. /\ UNCHANGED <<source, disk, watch, event, cores, stage, spawned>>
      /\ todo[a] # <<>> /\ GoesOn(a) /\ Head(todo[a]) = "take" /\ running' = NoCore
      /\ \A c \in Callers : stage[c] \in {"greeting", "landing"} => c \in overtaken'
  BY DEF Take, At, AfterTake
<1>2. WatchInv'
  BY <1>1 DEF OldInv, WatchInv
<1>3. ScriptsOrdered'
  BY <1>1, AdvanceOrdered DEF OldInv
<1>4. ReloadInv'
  BY <1>1 DEF ReloadInv
<1> QED BY <1>2, <1>3, <1>4 DEF OldInv

(* A watch of a release whose directory goes sees nothing from then on. *)
LEMMA ReleaseGoes ==
  ASSUME IInv, WatchInv, watch' = Blinded("release"), event' = (event \/ Notices("release"))
  PROVE  /\ WatchInv' /\ (event => event')
         /\ watch'.kind = "folder" => watch' = watch
<1>1. watch \in WatchType \cup {NoWatch}
  BY DEF IInv, TypeOK
<1>2. CASE watch.kind = "release"
  <2>1. watch' = [watch EXCEPT !.sees = {}]
    BY <1>2 DEF Blinded
  <2>2. watch'.sees = {} /\ watch'.kind = "release"
    BY <1>1, <1>2, <2>1 DEF WatchType, NoWatch
  <2> QED BY <2>2 DEF WatchInv
<1>3. CASE watch.kind # "release"
  <2>1. watch' = watch
    BY <1>3 DEF Blinded
  <2> QED BY <1>3, <2>1 DEF WatchInv
<1> QED BY <1>2, <1>3

(* What is forgotten or deleted leaves no folder stale: a directory that is *)
(* deleted is the release's.                                               *)
LEMMA DeleteReload ==
  ASSUME IInv, OldInv, NEW a \in Admins, Remove(a) \/ Discard(a) \/ Clear(a)
  PROVE  OldInv'
<1> USE DEF recordVars, diskVars, watchVars, callVars
<1>1. /\ UNCHANGED <<running, cores, stage, spawned, ghostVars>>
      /\ todo[a] # <<>> /\ Head(todo[a]) \in {"remove", "discard", "clear"} /\ (GoesOn(a) \/ Ends(a))
      /\ source' = "folder" => source = "folder"
  BY DEF Remove, Discard, Clear, At, GoesOnIf, ghostVars, Nowhere
<1>2. \/ /\ disk' = [disk EXCEPT !["release"] = 0]
         /\ watch' = Blinded("release") /\ event' = (event \/ Notices("release"))
      \/ /\ Head(todo[a]) \in {"remove", "discard"} /\ UNCHANGED <<disk, watch, event>>
  BY DEF Remove, Discard, Clear, At
<1>3. /\ WatchInv' /\ (event => event')
      /\ watch'.kind = "folder" => watch' = watch
  <2>1. CASE UNCHANGED <<disk, watch, event>>
    BY <2>1 DEF OldInv, WatchInv
  <2>2. CASE watch' = Blinded("release") /\ event' = (event \/ Notices("release"))
    BY <2>2, ReleaseGoes DEF OldInv
  <2> QED BY <1>2, <2>1, <2>2
<1>4. /\ disk'["folder"] = disk["folder"] /\ disk'["release"] \in {0, disk["release"]}
      /\ Head(todo[a]) = "clear" => disk'["release"] = 0
  BY <1>1, <1>2 DEF IInv, TypeOK, Kind
<1>5. Head(todo[a]) \notin BeforeTake \cup {"take", "place"}
  BY <1>1 DEF BeforeTake
<1>6. ScriptsOrdered' /\ ReloadInv'
  BY <1>1, <1>3, <1>4, <1>5, StepReload
<1> QED BY <1>3, <1>6 DEF OldInv

(* A release comes to a place that no watch sees. *)
LEMMA PlaceReload ==
  ASSUME IInv, OldInv, NEW a \in Admins, Place(a)
  PROVE  OldInv'
<1> USE DEF recordVars, diskVars, watchVars, callVars
<1>1. /\ UNCHANGED <<source, watch, event, running, cores, stage, spawned, ghostVars>>
      /\ todo[a] # <<>> /\ Head(todo[a]) = "place" /\ (GoesOn(a) \/ Ends(a))
      /\ disk \in [Kind -> 0..MaxBuilds]
      /\ disk' = disk \/ disk' = [disk EXCEPT !["release"] = made + 1]
  BY DEF Place, At, ghostVars, IInv, TypeOK
<1>2. disk["release"] = 0 /\ disk'["folder"] = disk["folder"]
  BY <1>1 DEF OldInv, ScriptsOrdered, At, Kind
<1>3. WatchInv'
  BY <1>1, <1>2 DEF OldInv, WatchInv
<1>4. Head(todo[a]) \notin BeforeTake \cup {"take", "clear"}
  BY <1>1 DEF BeforeTake
<1>5. ScriptsOrdered'
  BY <1>1, <1>4, AdvanceOrdered DEF OldInv
<1>6. ReloadComes => ReloadComes'
  BY <1>1, <1>4, AdvanceComes DEF OldInv
<1>7. ReloadInv'
  BY <1>1, <1>2, <1>6, ReloadKept DEF OldInv, ghostVars
<1> QED BY <1>3, <1>5, <1>7 DEF OldInv

(* A watch that is made is of what is there to see; one that is left alone *)
(* keeps its events.                                                       *)
LEMMA SyncReload ==
  ASSUME IInv, OldInv, NEW a \in Admins, Sync(a)
  PROVE  OldInv'
<1> USE DEF recordVars, diskVars, watchVars, callVars
<1>1. /\ UNCHANGED <<source, disk, running, cores, stage, spawned, ghostVars>>
      /\ todo[a] # <<>> /\ Head(todo[a]) = "sync" /\ GoesOn(a)
      /\ disk \in [Kind -> 0..MaxBuilds]
  BY DEF Sync, At, ghostVars, IInv, TypeOK
<1>2. Head(todo[a]) \notin BeforeTake \cup {"take", "place", "clear"}
  BY <1>1 DEF BeforeTake
<1>3. ScriptsOrdered'
  BY <1>1, <1>2, AdvanceOrdered DEF OldInv
<1>4. CASE UNCHANGED <<watch, event>>
  <2>1. WatchInv'
    BY <1>1, <1>4 DEF OldInv, WatchInv
  <2> QED BY <1>1, <1>2, <1>4, <2>1, StepReload DEF OldInv
<1>5. CASE watch' = NoWatch
  <2>1. watch'.kind = "none" /\ watch'.sees = {}
    BY <1>5 DEF NoWatch, Nowhere
  <2>2. (IInv /\ watch.kind # "folder" => ReloadInv)'
    BY NothingStale, PTL
  <2> QED BY <1>3, <2>1, <2>2, SyncKeeps DEF OldInv, WatchInv
<1>6. CASE /\ ~(want[a] = "release" /\ disk["release"] = 0)
           /\ want[a] # Nowhere /\ \E d \in Debouncers : watch' = Watching(want[a], d)
  <2>1. want[a] \in Kind
    BY <1>6 DEF IInv, TypeOK
  <2>2. watch'.kind = want[a] /\ watch'.sees = Seen(want[a]) /\ watch'.since = disk[want[a]]
    BY <1>6 DEF Watching
  <2>3. WatchInv'
    BY <1>1, <1>6, <2>1, <2>2 DEF WatchInv, Seen, Kind
  <2>4. watch'.kind # "folder" \/ watch'.since = disk'["folder"]
    BY <1>1, <2>2
  <2>5. (IInv /\ (watch.kind # "folder" \/ watch.since = disk["folder"]) => ReloadInv)'
    BY NothingStale, PTL
  <2> QED BY <1>3, <2>3, <2>4, <2>5, SyncKeeps DEF OldInv
<1> QED BY <1>4, <1>5, <1>6 DEF Sync

(* A build that makes the core of a watched folder old is an event. *)
LEMMA BuildReload ==
  ASSUME IInv, OldInv, Build
  PROVE  OldInv'
<1> USE DEF recordVars, watchVars, callVars, adminVars
<1>1. /\ UNCHANGED <<source, watch, running, cores, stage, spawned, todo, ghostVars>>
      /\ disk \in [Kind -> 0..MaxBuilds] /\ disk'["release"] = disk["release"]
      /\ event => event'
  BY DEF Build, ghostVars, IInv, TypeOK, Kind
<1>2. ScriptsOrdered' /\ WatchInv'
  BY <1>1 DEF OldInv, ScriptsOrdered, WatchInv, At
<1>3. CASE watch.kind = "folder" /\ "bin" \in watch.sees
  <2>1. event'
    BY <1>3 DEF Build, OldInv, WatchInv
  <2> QED BY <1>2, <2>1 DEF OldInv, ReloadInv, ReloadComes
<1>4. CASE ~(watch.kind = "folder" /\ "bin" \in watch.sees)
  <2>1. (IInv /\ (watch.kind # "folder" \/ "bin" \notin watch.sees) => ReloadInv)'
    BY NothingStale, PTL
  <2> QED BY <1>1, <1>2, <1>4, <2>1, BuildKeeps DEF OldInv
<1> QED BY <1>3, <1>4

(* A script that starts on a thread that is free is in order, and nobody   *)
(* loses one.                                                              *)
LEMMA ScriptStarts ==
  ASSUME IInv, OldInv, NEW a \in Admins, todo[a] = <<>>, NEW script,
         todo' = [todo EXCEPT ![a] = script], WellOrdered(script),
         script # <<>>, Head(script) # "place", a # Worker => ~HasPlace(script), UNCHANGED <<disk, watch>>
  PROVE  /\ ScriptsOrdered' /\ WatchInv' /\ todo'[a] = script
         /\ \A b \in Admins : HasTake(todo[b]) => HasTake(todo'[b])
<1>1. todo'[a] = script /\ \A b \in Admins \ {a} : todo'[b] = todo[b]
  BY DEF IInv, TypeOK
<1>2. ScriptsOrdered'
  BY <1>1 DEF OldInv, ScriptsOrdered, At
<1>3. WatchInv'
  BY DEF OldInv, WatchInv
<1> QED BY <1>1, <1>2, <1>3, EmptyOrdered

(* An operation asked for stops nothing that was to be stopped. *)
LEMMA BeginReload ==
  ASSUME IInv, OldInv, NEW a \in Admins, Begin(a)
  PROVE  OldInv'
<1> USE DEF recordVars, diskVars, watchVars, callVars
<1>1. /\ UNCHANGED <<source, disk, watch, event, running, cores, stage, spawned, ghostVars>>
      /\ todo[a] = <<>> /\ a \in {Main, Worker}
  BY DEF Begin, ghostVars
<1>2. PICK script \in ScriptsOf(a) : todo' = [todo EXCEPT ![a] = script]
  BY DEF Begin
<1>3. /\ WellOrdered(script) /\ script # <<>> /\ Head(script) # "place"
      /\ a # Worker => ~HasPlace(script)
  BY <1>1, <1>2, ScriptsAreOrdered DEF ScriptsOf
<1>4. /\ ScriptsOrdered' /\ WatchInv'
      /\ \A b \in Admins : HasTake(todo[b]) => HasTake(todo'[b])
  BY <1>1, <1>2, <1>3, ScriptStarts
<1>5. ReloadComes => ReloadComes'
  BY <1>1, <1>4 DEF ReloadComes
<1> QED BY <1>1, <1>4, <1>5, ReloadKept DEF OldInv, ghostVars

(* An event that is handled has become a reload. *)
LEMMA DebounceReload ==
  ASSUME IInv, OldInv, Debounce
  PROVE  OldInv'
<1> USE DEF recordVars, diskVars, callVars
<1>1. /\ UNCHANGED <<disk, watch>>
      /\ watch.by \in Debouncers /\ watch.by \in Admins /\ watch.by # Worker
      /\ todo[watch.by] = <<>> /\ todo' = [todo EXCEPT ![watch.by] = ReloadScript]
  BY CoresAssumption DEF Debounce, IInv, TypeOK, WatchType, Admins
<1>2. /\ WellOrdered(ReloadScript) /\ ReloadScript # <<>> /\ Head(ReloadScript) # "place"
      /\ ~HasPlace(ReloadScript) /\ HasTake(ReloadScript)
  BY ScriptsAreOrdered
<1>3. ScriptsOrdered' /\ WatchInv' /\ todo'[watch.by] = ReloadScript
  BY <1>1, <1>2, ScriptStarts
<1>4. ReloadComes'
  BY <1>1, <1>2, <1>3 DEF ReloadComes
<1> QED BY <1>3, <1>4 DEF OldInv, ReloadInv

(* Every step keeps the invariant. *)
LEMMA NextReload ==
  ASSUME IInv, OldInv, [Next]_vars
  PROVE  OldInv'
<1>1. ASSUME NEW c \in Callers,
             \/ Call(c) \/ Locate(c) \/ Start(c) \/ Greet(c) \/ GreetFails(c)
             \/ Land(c) \/ LandSecond(c) \/ Yield(c) \/ Return(c)
      PROVE  OldInv'
  BY <1>1, CallReload, StartReload, LandReload
<1>2. ASSUME NEW a \in Admins,
             \/ Begin(a) \/ Check(a) \/ Record(a) \/ Switch(a) \/ Take(a) \/ Shut(a)
             \/ Owner(a) \/ Remove(a) \/ Discard(a) \/ Clear(a) \/ Place(a) \/ Read(a) \/ Sync(a)
      PROVE  OldInv'
  BY <1>2, BeginReload, GuardReload, RecordReload, TakeReload, PlainStepReload, DeleteReload,
     PlaceReload, SyncReload
<1>3. ASSUME NEW p \in 1..MaxCores, Crash(p)
      PROVE  OldInv'
  BY <1>3, CrashReload
<1>4. CASE UNCHANGED vars
  BY <1>4 DEF vars, recordVars, diskVars, watchVars, callVars, adminVars, ghostVars, OldInv,
     ScriptsOrdered, At, WatchInv, ReloadInv, Stale, ReloadComes
<1> QED BY <1>1, <1>2, <1>3, <1>4, BuildReload, DebounceReload DEF Next

(* When everything is quiet, a core that an older build of a watched       *)
(* checkout left in the map is one whose start its reload ran past:        *)
(* whatever was built, installed, upgraded or removed on the way, by       *)
(* whichever threads, no rebuild that the watch saw goes without a reload. *)
THEOREM OldBuildAlwaysGoes == Spec => []OldBuildGoes
<1>1. Init => OldInv
  BY EmptyOrdered DEF Init, OldInv, ScriptsOrdered, At, WatchInv, NoWatch, ReloadInv, NoCore
<1>2. IInv /\ OldInv /\ [Next]_vars => OldInv'
  BY NextReload
<1>3. IInv /\ OldInv => OldBuildGoes
  <2>1. SUFFICES ASSUME IInv, OldInv, Quiet, Outdated, "bin" \in watch.sees
                 PROVE  running \in late
    BY DEF OldBuildGoes
  <2>2. source \in Kind /\ running \in CoreId /\ disk[source] \in Nat
    <3>1. running \in CoreId /\ cores[running] \in Core
      BY <2>1 DEF Outdated, IInv, TypeOK, CoreId
    <3> QED BY <2>1, <3>1, CoresAssumption DEF Outdated, Core, IInv, TypeOK
  <2>3. source # "release"
    BY <2>1, <2>2 DEF OldInv, WatchInv, Outdated
  <2>4. Stale(running) /\ running # NoCore
    BY <2>1, <2>2, <2>3 DEF Stale, Outdated, Kind
  <2>5. ~ReloadComes
    BY <2>1, EmptyOrdered DEF Quiet, ReloadComes
  <2> QED BY <2>1, <2>4, <2>5 DEF OldInv, ReloadInv
<1> QED BY <1>1, <1>2, <1>3, CoresInv, PTL DEF Spec

=============================================================================
