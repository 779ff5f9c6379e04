----------------------- MODULE ChannelRegistryProofs -----------------------
(* For every set of channels, targets and requests: the types of the        *)
(* registry, that only overlapping requests put two channels on one UDP     *)
(* target, and (RowsInv) that an edit leaves the status, the outputs are    *)
(* those asked for and the limit holds, where a request was undisturbed.    *)
EXTENDS ChannelRegistry, FiniteSetTheorems, TLAPS

LEMMA IdleIsRequest == IdleRequest \in Request
  BY RegistryAssumption DEF IdleRequest, Request, Pc, StreamState

\* What a request is sent: its outputs are never an empty list.
LEMMA OutputsAreOutputs ==
    ASSUME NEW outs \in OutputChoices
    PROVE  /\ OrUdp(outs) \in SUBSET OutputType
           /\ (IF outs = {} THEN {"udp", "hls"} ELSE outs) \in SUBSET OutputType
  BY RegistryAssumption DEF OrUdp, OutputType

LEMMA SamplesCount == Cardinality(SampleTargets) \in 0..EntryMax
  BY RegistryAssumption, FS_CardinalityType

\* The history of overlaps has its type after any step.
LEMMA HistoryTypes ==
    ASSUME contested' = contested \cup DoublyHeld', contested \subseteq Targets
    PROVE  contested' \subseteq Targets
  BY DEF DoublyHeld

LEMMA CrowdedTypes == Crowded' \subseteq Channels
  BY DEF Crowded

LEMMA GoTypes ==
    ASSUME RegistryTypeOK, NEW r \in Requests, NEW next \in Request, Go(r, next)
    PROVE  /\ req' \in [Requests -> Request]
           /\ contested' \subseteq Targets
           /\ tangled' \subseteq Channels
  BY HistoryTypes, CrowdedTypes DEF Go, RegistryTypeOK

LEMMA FinishTypes ==
    ASSUME RegistryTypeOK, NEW r \in Requests, Finish(r)
    PROVE  /\ req' \in [Requests -> Request]
           /\ contested' \subseteq Targets
           /\ tangled' \subseteq Channels
  BY GoTypes, IdleIsRequest DEF Finish

\* A step that adds a row only marks the other requests.
LEMMA MarkedRequests ==
    ASSUME RegistryTypeOK, NEW r \in Requests, NEW next \in Request,
           req' = [q \in Requests |-> IF q = r THEN next ELSE [req[q] EXCEPT !.alone = FALSE]]
    PROVE  req' \in [Requests -> Request]
  <1>1. ASSUME NEW q \in Requests
        PROVE  [req[q] EXCEPT !.alone = FALSE] \in Request
    BY <1>1 DEF RegistryTypeOK, Request
  <1> QED
    BY <1>1

LEMMA InsertTypes ==
    ASSUME RegistryTypeOK, NEW r \in Requests, NEW c \in Channels,
           NEW t \in Targets \cup {None}, NEW next \in Request, Insert(r, c, t, next), UNCHANGED <<limit, api>>
    PROVE  RegistryTypeOK'
  <1>1. /\ req' \in [Requests -> Request]
        /\ contested' \subseteq Targets
    BY MarkedRequests, HistoryTypes DEF Insert, RegistryTypeOK
  <1>2. /\ target' \in [Channels -> Targets \cup {None}]
        /\ status' \in [Channels -> StreamState]
        /\ written' \in [Channels -> StreamState]
    BY DEF Insert, RegistryTypeOK, StreamState
  <1>3. outputs' \in [Channels -> [OutputType -> Nat]]
    BY DEF Insert, RegistryTypeOK, NoOutputs
  <1>4. asked' \in [Channels -> SUBSET OutputType]
    BY DEF Insert, RegistryTypeOK, Request
  <1> QED
    BY <1>1, <1>2, <1>3, <1>4 DEF Insert, RegistryTypeOK

\* One more row of type o for channel x.
LEMMA OneMoreOutput ==
    ASSUME RegistryTypeOK, NEW x, NEW o, outputs' = [outputs EXCEPT ![x][o] = @ + 1]
    PROVE  outputs' \in [Channels -> [OutputType -> Nat]]
  <1> DEFINE cell == [OutputType -> Nat]
             more(c) == [outputs[c] EXCEPT ![o] = @ + 1]
  <1>1. outputs \in [Channels -> cell]
    BY DEF RegistryTypeOK
  <1>2. ASSUME NEW n \in cell
        PROVE  [n EXCEPT ![o] = @ + 1] \in cell
    <2>1. \A p \in OutputType : n[p] + 1 \in Nat
      BY <1>2
    <2> QED
      BY <1>2, <2>1
  <1>3. \A c \in Channels : more(c) \in cell
    BY <1>1, <1>2
  <1>4. outputs' = [c \in Channels |-> IF c = x THEN more(c) ELSE outputs[c]]
    BY <1>1
  <1> HIDE DEF cell, more
  <1>5. outputs' \in [Channels -> cell]
    BY <1>1, <1>3, <1>4
  <1> QED
    BY <1>5 DEF cell

LEMMA RequestTypes ==
    ASSUME RegistryTypeOK, NEW r \in Requests, RequestStep(r)
    PROVE  RegistryTypeOK'
  <1> USE DEF tableVars, rowVars
  <1>0. req[r] \in Request
    BY DEF RegistryTypeOK
  <1>1. CASE PostChannel(r)
    <2> PICK t \in Targets, outs \in OutputChoices :
          Go(r, [IdleRequest EXCEPT !.op = "create", !.pc = "count", !.target = t,
                                    !.wanted = OrUdp(outs), !.max = limit])
      BY <1>1 DEF PostChannel
    <2> DEFINE next == [IdleRequest EXCEPT !.op = "create", !.pc = "count", !.target = t,
                                           !.wanted = OrUdp(outs), !.max = limit]
    <2>1. next \in Request
      BY IdleIsRequest, OutputsAreOutputs DEF RegistryTypeOK, Request, Op, Pc
    <2> QED
      BY <1>1, <2>1, GoTypes DEF PostChannel, RegistryTypeOK
  <1>2. CASE CountChannels(r)
    <2>1. [req[r] EXCEPT !.pc = "target", !.alone = TRUE] \in Request
      BY <1>0 DEF Request, Pc
    <2>2. req' \in [Requests -> Request] /\ contested' \subseteq Targets /\ tangled' \subseteq Channels
      BY <1>2, <2>1, GoTypes, FinishTypes DEF CountChannels
    <2> QED
      BY <1>2, <2>2 DEF CountChannels, RegistryTypeOK
  <1>3. CASE CheckTarget(r)
    <2>1. [req[r] EXCEPT !.pc = "save"] \in Request
      BY <1>0 DEF Request, Pc
    <2>2. req' \in [Requests -> Request] /\ contested' \subseteq Targets /\ tangled' \subseteq Channels
      BY <1>3, <2>1, GoTypes, FinishTypes DEF CheckTarget
    <2> QED
      BY <1>3, <2>2 DEF CheckTarget, RegistryTypeOK
  <1>4. CASE InsertChannel(r)
    <2> PICK c \in Channels :
          Insert(r, c, req[r].target,
                 [req[r] EXCEPT !.pc = "outputs", !.chan = c, !.outs = req[r].wanted])
      BY <1>4 DEF InsertChannel
    <2>1. [req[r] EXCEPT !.pc = "outputs", !.chan = c, !.outs = req[r].wanted] \in Request
      BY <1>0 DEF Request, Pc
    <2>2. req[r].target \in Targets \cup {None}
      BY <1>0 DEF Request
    <2> QED
      BY <1>4, <2>1, <2>2, InsertTypes DEF InsertChannel
  <1>5. CASE SaveOutput(r)
    <2>1. CASE target[req[r].chan] = None
      BY <1>5, <2>1, FinishTypes DEF SaveOutput, RegistryTypeOK
    <2>2. CASE target[req[r].chan] # None
      <3> PICK o \in req[r].outs :
            /\ outputs' = [outputs EXCEPT ![req[r].chan][o] = @ + 1]
            /\ Go(r, CASE req[r].outs # {o} -> [req[r] EXCEPT !.outs = @ \ {o}]
                       [] req[r].outs = {o} /\ req[r].op \in {"import", "seed"} ->
                            [req[r] EXCEPT !.outs = {}, !.pc = "entry", !.chan = None]
                       [] OTHER -> IdleRequest)
        BY <1>5, <2>2 DEF SaveOutput
      <3> DEFINE next ==
            CASE req[r].outs # {o} -> [req[r] EXCEPT !.outs = @ \ {o}]
              [] req[r].outs = {o} /\ req[r].op \in {"import", "seed"} ->
                   [req[r] EXCEPT !.outs = {}, !.pc = "entry", !.chan = None]
              [] OTHER -> IdleRequest
      <3>1. [req[r] EXCEPT !.outs = @ \ {o}] \in Request
        BY <1>0 DEF Request
      <3>2. [req[r] EXCEPT !.outs = {}, !.pc = "entry", !.chan = None] \in Request
        BY <1>0 DEF Request, Pc
      <3>3. next \in Request
        BY <3>1, <3>2, IdleIsRequest
      <3>4. req' \in [Requests -> Request] /\ contested' \subseteq Targets /\ tangled' \subseteq Channels
        BY <3>3, GoTypes
      <3>5. outputs' \in [Channels -> [OutputType -> Nat]]
        BY OneMoreOutput
      <3> QED
        BY <1>5, <3>4, <3>5 DEF SaveOutput, RegistryTypeOK
    <2> QED
      BY <2>1, <2>2
  <1>6. CASE PutChannel(r)
    <2> PICK c \in Rows, t \in Targets, outs \in OutputChoices, given \in BOOLEAN :
          Go(r, [IdleRequest EXCEPT
                    !.op = "update", !.pc = IF t = target[c] THEN "save" ELSE "target",
                    !.chan = c, !.target = t, !.status = status[c],
                    !.wanted = IF given THEN OrUdp(outs) ELSE {}])
      BY <1>6 DEF PutChannel
    <2>1. c \in Channels /\ status[c] \in StreamState
      BY DEF Rows, RegistryTypeOK
    <2>2. [IdleRequest EXCEPT
              !.op = "update", !.pc = IF t = target[c] THEN "save" ELSE "target",
              !.chan = c, !.target = t, !.status = status[c],
              !.wanted = IF given THEN OrUdp(outs) ELSE {}] \in Request
      BY <2>1, IdleIsRequest, OutputsAreOutputs DEF Request, Op, Pc
    <2>3. req' \in [Requests -> Request] /\ contested' \subseteq Targets /\ tangled' \subseteq Channels
      BY <2>2, GoTypes
    <2> QED
      BY <1>6, <2>3 DEF PutChannel, RegistryTypeOK
  <1>7. CASE SaveChannel(r)
    <2> DEFINE next == IF req[r].wanted = {} THEN IdleRequest ELSE [req[r] EXCEPT !.pc = "clear"]
    <2>1. next \in Request
      BY <1>0, IdleIsRequest DEF Request, Pc
    <2>2. GoInserting(r, next) \/ Go(r, next)
      BY <1>7 DEF SaveChannel
    <2>3. req' \in [Requests -> Request] /\ contested' \subseteq Targets /\ tangled' \subseteq Channels
      BY <2>1, <2>2, GoTypes, MarkedRequests, HistoryTypes, CrowdedTypes DEF GoInserting, RegistryTypeOK
    <2>4. /\ target' \in [Channels -> Targets \cup {None}]
          /\ status' \in [Channels -> StreamState]
      BY <1>0, <1>7 DEF SaveChannel, RegistryTypeOK, Request
    <2> QED
      BY <1>7, <2>3, <2>4 DEF SaveChannel, RegistryTypeOK
  <1>8. CASE ClearOutputs(r)
    <2>1. [req[r] EXCEPT !.pc = "outputs", !.outs = req[r].wanted] \in Request
      BY <1>0 DEF Request, Pc
    <2>2. req' \in [Requests -> Request] /\ contested' \subseteq Targets /\ tangled' \subseteq Channels
      BY <1>8, <2>1, GoTypes DEF ClearOutputs
    <2>3. /\ outputs' \in [Channels -> [OutputType -> Nat]]
          /\ asked' \in [Channels -> SUBSET OutputType]
      BY <1>0, <1>8 DEF ClearOutputs, RegistryTypeOK, Request, NoOutputs
    <2> QED
      BY <1>8, <2>2, <2>3 DEF ClearOutputs, RegistryTypeOK
  <1>9. CASE DeleteChannel(r)
    <2> PICK c \in Rows : Go(r, [IdleRequest EXCEPT !.op = "remove", !.pc = "remove", !.chan = c])
      BY <1>9 DEF DeleteChannel
    <2>1. [IdleRequest EXCEPT !.op = "remove", !.pc = "remove", !.chan = c] \in Request
      BY IdleIsRequest DEF Request, Rows, Op, Pc
    <2> QED
      BY <1>9, <2>1, GoTypes DEF DeleteChannel, RegistryTypeOK
  <1>10. CASE RemoveChannel(r)
    <2>1. req' \in [Requests -> Request] /\ tangled' \subseteq Channels
      BY <1>10, IdleIsRequest, CrowdedTypes DEF RemoveChannel, RegistryTypeOK
    <2>2. /\ target' \in [Channels -> Targets \cup {None}]
          /\ status' \in [Channels -> StreamState]
          /\ written' \in [Channels -> StreamState]
      BY <1>10 DEF RemoveChannel, RegistryTypeOK, StreamState
    <2>3. /\ outputs' \in [Channels -> [OutputType -> Nat]]
          /\ asked' \in [Channels -> SUBSET OutputType]
      BY <1>10 DEF RemoveChannel, RegistryTypeOK, NoOutputs
    <2>4. stale' \subseteq Channels
      BY <1>10 DEF RemoveChannel
    <2> QED
      BY <1>10, <2>1, <2>2, <2>3, <2>4 DEF RemoveChannel, RegistryTypeOK
  <1>11. CASE PostImport(r)
    <2> PICK n \in 1..EntryMax, outs \in OutputChoices :
          Go(r, [IdleRequest EXCEPT
                    !.op = "import", !.pc = "entry", !.todo = n,
                    !.used = {target[c] : c \in Rows},
                    !.wanted = IF outs = {} THEN {"udp", "hls"} ELSE outs])
      BY <1>11 DEF PostImport
    <2>1. {target[c] : c \in Rows} \in SUBSET Targets
      BY DEF Rows, RegistryTypeOK
    <2>2. n \in 0..EntryMax
      BY RegistryAssumption
    <2>3. [IdleRequest EXCEPT
              !.op = "import", !.pc = "entry", !.todo = n,
              !.used = {target[c] : c \in Rows},
              !.wanted = IF outs = {} THEN {"udp", "hls"} ELSE outs] \in Request
      BY <2>1, <2>2, IdleIsRequest, OutputsAreOutputs DEF Request, Op, Pc
    <2> QED
      BY <1>11, <2>3, GoTypes DEF PostImport, RegistryTypeOK
  <1>12. CASE ImportEntry(r)
    <2> PICK c \in Channels, t \in Targets \ req[r].used :
          Insert(r, c, t,
                 [req[r] EXCEPT !.pc = "outputs", !.chan = c, !.outs = req[r].wanted,
                                !.used = @ \cup {t}, !.todo = @ - 1])
      BY <1>12 DEF ImportEntry
    <2>1. req[r].todo - 1 \in 0..EntryMax
      BY <1>0, <1>12, RegistryAssumption DEF ImportEntry, Request
    <2>2. [req[r] EXCEPT !.pc = "outputs", !.chan = c, !.outs = req[r].wanted,
                         !.used = @ \cup {t}, !.todo = @ - 1] \in Request
      BY <1>0, <2>1 DEF Request, Pc
    <2> QED
      BY <1>12, <2>2, InsertTypes DEF ImportEntry
  <1>13. CASE FinishImport(r)
    BY <1>13, FinishTypes DEF FinishImport, RegistryTypeOK
  <1> QED
    BY <1>1, <1>2, <1>3, <1>4, <1>5, <1>6, <1>7, <1>8, <1>9, <1>10, <1>11, <1>12, <1>13
    DEF RequestStep

LEMMA NextTypes ==
    ASSUME RegistryTypeOK, [Next]_vars
    PROVE  RegistryTypeOK'
  <1> USE DEF tableVars, rowVars, histVars
  <1>1. ASSUME NEW c \in Channels, NEW s \in Statuses, StatusWritten(c, s)
        PROVE  RegistryTypeOK'
    BY <1>1, RegistryAssumption DEF StatusWritten, RegistryTypeOK
  <1>2. CASE LicenceChanges
    BY <1>2 DEF LicenceChanges, RegistryTypeOK
  <1>3. CASE ApiStarts
    <2>1. CASE Rows = {} /\ SampleTargets # {}
      <3> PICK r \in Requests :
            Go(r, [IdleRequest EXCEPT
                      !.op = "seed", !.pc = "entry", !.wanted = {"udp"},
                      !.used = Targets \ SampleTargets,
                      !.todo = Cardinality(SampleTargets)])
        BY <1>3, <2>1 DEF ApiStarts
      <3>1. [IdleRequest EXCEPT
                !.op = "seed", !.pc = "entry", !.wanted = {"udp"},
                !.used = Targets \ SampleTargets,
                !.todo = Cardinality(SampleTargets)] \in Request
        BY IdleIsRequest, SamplesCount DEF Request, Op, Pc, OutputType
      <3> QED
        BY <1>3, <2>1, <3>1, GoTypes DEF ApiStarts, RegistryTypeOK
    <2>2. CASE ~(Rows = {} /\ SampleTargets # {})
      BY <1>3, <2>2 DEF ApiStarts, RegistryTypeOK
    <2> QED
      BY <2>1, <2>2
  <1>4. CASE ApiCrashes
    <2>1. req' \in [Requests -> Request]
      BY <1>4, IdleIsRequest DEF ApiCrashes
    <2> QED
      BY <1>4, <2>1 DEF ApiCrashes, RegistryTypeOK
  <1>5. CASE UNCHANGED vars
    BY <1>5 DEF vars, RegistryTypeOK
  <1> QED
    BY <1>1, <1>2, <1>3, <1>4, <1>5, RequestTypes DEF Next

LEMMA InitTypes == Init => RegistryTypeOK
  BY IdleIsRequest DEF Init, RegistryTypeOK, StreamState, NoOutputs

\* The rows, the requests and the histories keep their types, whatever the requests do.
THEOREM RegistryTypeCorrect == Spec => []RegistryTypeOK
  <1>1. Init => RegistryTypeOK
    BY InitTypes
  <1>2. RegistryTypeOK /\ [Next]_vars => RegistryTypeOK'
    BY NextTypes
  <1> QED
    BY <1>1, <1>2, PTL DEF Spec

----------------------------------------------------------------------------
(* The targets.                                                            *)

\* A step after which nobody may take a target he could not take before, and no row has
\* a target it did not have.
LEMMA NothingTaken ==
    ASSUME TargetsInv,
           contested \subseteq contested',
           \A q \in Requests : WellPlaced(req[q])',
           \A c \in Channels : target'[c] \in {target[c], None},
           \A q \in Requests, t \in Targets :
              Holds(q, t)' =>
                 /\ Holds(q, t)
                 /\ req[q].op = "update" => req'[q].op = "update" /\ req'[q].chan = req[q].chan
    PROVE  TargetsInv'
  <1>1. TargetsDistinct'
    BY DEF TargetsInv, TargetsDistinct
  <1>2. (DoublyHeld \subseteq contested)'
    BY DEF TargetsInv, DoublyHeld
  <1>3. ASSUME NEW q \in Requests, NEW t \in Targets \ contested', Holds(q, t)',
               NEW c \in Channels, target'[c] = t
        PROVE  req'[q].op = "update" /\ req'[q].chan = c
    <2>1. target[c] = t /\ Holds(q, t)
      BY <1>3, RegistryAssumption
    <2>2. req[q].op = "update" /\ req[q].chan = c
      BY <1>3, <2>1 DEF TargetsInv
    <2> QED
      BY <1>3, <2>2
  <1> QED
    BY <1>1, <1>2, <1>3 DEF TargetsInv

\* Request r goes on, and may take no more than it could.
LEMMA GoTakesNothing ==
    ASSUME RegistryTypeOK, TargetsInv, NEW r \in Requests, NEW next,
           req' = [req EXCEPT ![r] = next],
           contested \subseteq contested',
           \A c \in Channels : target'[c] \in {target[c], None},
           WellPlaced(next),
           \A t \in Targets :
              MayTake(next, t) => MayTake(req[r], t) /\ next.op = req[r].op /\ next.op # "update"
    PROVE  TargetsInv'
  <1>1. ASSUME NEW q \in Requests
        PROVE  req'[q] = IF q = r THEN next ELSE req[q]
    BY DEF RegistryTypeOK
  <1>2. \A q \in Requests : WellPlaced(req[q])'
    BY <1>1 DEF TargetsInv, WellPlaced
  <1>3. \A q \in Requests, t \in Targets : Holds(q, t)' = MayTake(req'[q], t)
    BY DEF Holds, MayTake
  <1>4. ASSUME NEW q \in Requests, NEW t \in Targets, Holds(q, t)'
        PROVE  /\ Holds(q, t)
               /\ req[q].op = "update" => req'[q].op = "update" /\ req'[q].chan = req[q].chan
    BY <1>1, <1>3, <1>4 DEF Holds
  <1> QED
    BY <1>2, <1>4, NothingTaken

LEMMA IdleTakesNothing ==
    WellPlaced(IdleRequest) /\ \A t \in Targets : ~MayTake(IdleRequest, t)
  BY DEF IdleRequest, WellPlaced, MayTake

LEMMA FinishKeepsTargets ==
    ASSUME RegistryTypeOK, TargetsInv, NEW r \in Requests, Finish(r), UNCHANGED target
    PROVE  TargetsInv'
  BY GoTakesNothing, IdleTakesNothing DEF Finish, Go

\* Request r comes to hold targets that nobody else's row has.
LEMMA GoHolding ==
    ASSUME RegistryTypeOK, TargetsInv, NEW r \in Requests, NEW next,
           Go(r, next), UNCHANGED target, WellPlaced(next),
           \A t \in Targets \ contested, c \in Channels :
              MayTake(next, t) /\ target[c] = t => next.op = "update" /\ next.chan = c
    PROVE  TargetsInv'
  <1>1. ASSUME NEW q \in Requests
        PROVE  req'[q] = IF q = r THEN next ELSE req[q]
    BY DEF RegistryTypeOK, Go
  <1>2. \A q \in Requests : WellPlaced(req[q])'
    BY <1>1 DEF TargetsInv, WellPlaced
  <1>3. TargetsDistinct'
    BY DEF TargetsInv, TargetsDistinct, Go
  <1>4. (DoublyHeld \subseteq contested)'
    BY DEF Go
  <1>5. ASSUME NEW q \in Requests, NEW t \in Targets \ contested', Holds(q, t)',
               NEW c \in Channels, target'[c] = t
        PROVE  req'[q].op = "update" /\ req'[q].chan = c
    <2>1. MayTake(req'[q], t) /\ t \in Targets \ contested /\ target[c] = t
      BY <1>5 DEF Holds, MayTake, Go
    <2>2. CASE q = r
      BY <1>1, <2>1, <2>2
    <2>3. CASE q # r
      BY <1>1, <2>1, <2>3 DEF TargetsInv, Holds
    <2> QED
      BY <2>2, <2>3
  <1> QED
    BY <1>2, <1>3, <1>4, <1>5 DEF TargetsInv

\* Request r, which holds t, saves it to row c and holds it no more.
LEMMA Taken ==
    ASSUME RegistryTypeOK, TargetsInv, NEW r \in Requests, NEW c \in Channels, NEW t \in Targets,
           Holds(r, t), target' = [target EXCEPT ![c] = t],
           \A d \in Channels \ {c} : target[d] = t => t \in contested,
           NEW next, WellPlaced(next),
           \A u \in Targets : MayTake(next, u) => MayTake(req[r], u) /\ u # t /\ req[r].op # "update",
           \A q \in Requests :
              IF q = r THEN req'[q] = next
                       ELSE req'[q] \in {req[q], [req[q] EXCEPT !.alone = FALSE]},
           contested' = contested \cup DoublyHeld'
    PROVE  TargetsInv'
  <1>1. \A d \in Channels : target'[d] = IF d = c THEN t ELSE target[d]
    BY DEF RegistryTypeOK
  <1>2. ASSUME NEW q \in Requests, q # r
        PROVE  /\ req'[q].pc = req[q].pc /\ req'[q].op = req[q].op
               /\ req'[q].chan = req[q].chan /\ req'[q].target = req[q].target
               /\ req'[q].todo = req[q].todo /\ req'[q].used = req[q].used
    <2>1. req[q] \in Request
      BY DEF RegistryTypeOK
    <2>2. req'[q] = req[q] \/ req'[q] = [req[q] EXCEPT !.alone = FALSE]
      BY <1>2
    <2> QED
      BY <2>1, <2>2 DEF Request
  <1>3. req'[r] = next
    OBVIOUS
  <1>4. ASSUME NEW q \in Requests
        PROVE  WellPlaced(req[q])'
    BY <1>2, <1>3 DEF TargetsInv, WellPlaced
  <1>5. ASSUME NEW q \in Requests, NEW u \in Targets, Holds(q, u)'
        PROVE  Holds(q, u) /\ (q = r => u # t /\ req[r].op # "update")
    BY <1>2, <1>3, <1>5 DEF Holds, MayTake
  <1>6. TargetsDistinct'
    BY <1>1 DEF TargetsInv, TargetsDistinct
  <1>7. ASSUME NEW q \in Requests, NEW u \in Targets \ contested', Holds(q, u)',
               NEW d \in Channels, target'[d] = u
        PROVE  req'[q].op = "update" /\ req'[q].chan = d
    <2>1. u \notin contested /\ Holds(q, u)
      BY <1>5, <1>7
    <2>2. d # c
      BY <1>1, <1>5, <1>7, <2>1 DEF TargetsInv, DoublyHeld
    <2>3. req[q].op = "update" /\ req[q].chan = d
      BY <1>1, <1>7, <2>1, <2>2 DEF TargetsInv
    <2> QED
      BY <1>2, <1>5, <1>7, <2>3
  <1> QED
    BY <1>4, <1>6, <1>7 DEF TargetsInv

LEMMA RequestKeepsTargets ==
    ASSUME RegistryTypeOK, TargetsInv, NEW r \in Requests, RequestStep(r)
    PROVE  TargetsInv'
  <1> USE DEF tableVars, rowVars
  <1>0. /\ req[r] \in Request
        /\ WellPlaced(req[r])
        /\ \A c \in Channels : target[c] = target[c]
    BY DEF RegistryTypeOK, TargetsInv
  <1>1. CASE PostChannel(r)
    <2> PICK t \in Targets, outs \in OutputChoices :
          Go(r, [IdleRequest EXCEPT !.op = "create", !.pc = "count", !.target = t,
                                    !.wanted = OrUdp(outs), !.max = limit])
      BY <1>1 DEF PostChannel
    <2> DEFINE next == [IdleRequest EXCEPT !.op = "create", !.pc = "count", !.target = t,
                                           !.wanted = OrUdp(outs), !.max = limit]
    <2>1. WellPlaced(next) /\ \A u \in Targets : ~MayTake(next, u)
      BY RegistryAssumption DEF IdleRequest, WellPlaced, MayTake
    <2> QED
      BY <1>1, <2>1, GoTakesNothing DEF PostChannel, Go
  <1>2. CASE CountChannels(r)
    <2> DEFINE next == [req[r] EXCEPT !.pc = "target", !.alone = TRUE]
    <2>1. CASE Go(r, next)
      <3>1. /\ next.pc = "target" /\ next.op = req[r].op
            /\ next.chan = req[r].chan /\ next.target = req[r].target
            /\ req[r].op \in {"create", "update"} /\ req[r].target # None
            /\ req[r].op = "create" <=> req[r].chan = None
        BY <1>0, <1>2 DEF Request, WellPlaced, CountChannels
      <3>2. WellPlaced(next) /\ \A t \in Targets : ~MayTake(next, t)
        BY <3>1 DEF WellPlaced, MayTake
      <3> QED
        BY <1>2, <2>1, <3>2, GoTakesNothing DEF CountChannels, Go
    <2> QED
      BY <1>2, <2>1, FinishKeepsTargets DEF CountChannels
  <1>3. CASE CheckTarget(r)
    <2> DEFINE next == [req[r] EXCEPT !.pc = "save"]
    <2>1. CASE /\ ~\E c \in Channels \ {req[r].chan} : target[c] = req[r].target
               /\ Go(r, next)
      <3>1. /\ req[r].op \in {"create", "update"} /\ req[r].target # None
            /\ req[r].op = "create" <=> req[r].chan = None
        BY <1>0, <1>3 DEF CheckTarget, WellPlaced
      <3>2. /\ next.pc = "save" /\ next.op = req[r].op
            /\ next.chan = req[r].chan /\ next.target = req[r].target
        BY <1>0 DEF Request
      <3>3. WellPlaced(next)
        BY <3>1, <3>2 DEF WellPlaced
      <3>4. ASSUME NEW t \in Targets, NEW c \in Channels, MayTake(next, t), target[c] = t
            PROVE  next.op = "update" /\ next.chan = c
        <4>1. req[r].target = t
          BY <3>1, <3>2, <3>4 DEF MayTake
        <4>2. c = req[r].chan
          BY <2>1, <3>4, <4>1
        <4> QED
          BY <3>1, <3>2, <4>2, RegistryAssumption
      <3> HIDE DEF next
      <3> QED
        BY <1>3, <2>1, <3>3, <3>4, GoHolding DEF CheckTarget
    <2> QED
      BY <1>3, <2>1, FinishKeepsTargets DEF CheckTarget
  <1>4. CASE InsertChannel(r)
    <2> PICK c \in Channels :
          /\ Unused(c)
          /\ Insert(r, c, req[r].target,
                    [req[r] EXCEPT !.pc = "outputs", !.chan = c, !.outs = req[r].wanted])
      BY <1>4 DEF InsertChannel
    <2> DEFINE next == [req[r] EXCEPT !.pc = "outputs", !.chan = c, !.outs = req[r].wanted]
               t == req[r].target
    <2>1. /\ next.pc = "outputs" /\ next.op = "create"
          /\ req[r].op = "create" /\ req[r].pc = "save"
      BY <1>0, <1>4 DEF InsertChannel, Request
    <2>2. WellPlaced(next) /\ \A u \in Targets : ~MayTake(next, u)
      BY <2>1 DEF WellPlaced, MayTake
    <2>3. t \in Targets
      BY <1>0, <2>1 DEF Request, WellPlaced
    <2>4. Holds(r, t)
      BY <2>1 DEF Holds, MayTake
    <2>5. \A d \in Channels \ {c} : target[d] = t => t \in contested
      BY <2>1, <2>3, <2>4 DEF TargetsInv
    <2>6. /\ target' = [target EXCEPT ![c] = t]
          /\ req' = [q \in Requests |-> IF q = r THEN next ELSE [req[q] EXCEPT !.alone = FALSE]]
          /\ contested' = contested \cup DoublyHeld'
      BY DEF Insert
    <2> HIDE DEF next, t
    <2> QED
      BY <2>2, <2>3, <2>4, <2>5, <2>6, Taken
  <1>5. CASE SaveOutput(r)
    <2>1. CASE target[req[r].chan] = None
      BY <1>5, <2>1, FinishKeepsTargets DEF SaveOutput
    <2>2. CASE target[req[r].chan] # None
      <3> PICK o \in req[r].outs :
            Go(r, CASE req[r].outs # {o} -> [req[r] EXCEPT !.outs = @ \ {o}]
                    [] req[r].outs = {o} /\ req[r].op \in {"import", "seed"} ->
                         [req[r] EXCEPT !.outs = {}, !.pc = "entry", !.chan = None]
                    [] OTHER -> IdleRequest)
        BY <1>5, <2>2 DEF SaveOutput
      <3> DEFINE more == [req[r] EXCEPT !.outs = @ \ {o}]
                 entry == [req[r] EXCEPT !.outs = {}, !.pc = "entry", !.chan = None]
      <3>1. CASE Go(r, more)
        <4>1. /\ more.pc = "outputs" /\ more.op = req[r].op
              /\ more.todo = req[r].todo /\ more.used = req[r].used
          BY <1>0, <1>5 DEF Request, SaveOutput
        <4>2. WellPlaced(more)
          BY <4>1 DEF WellPlaced
        <4>3. \A t \in Targets :
                MayTake(more, t) => MayTake(req[r], t) /\ more.op = req[r].op /\ more.op # "update"
          BY <4>1 DEF MayTake
        <4> HIDE DEF more
        <4> QED
          BY <1>5, <3>1, <4>2, <4>3, GoTakesNothing DEF SaveOutput, Go
      <3>2. CASE req[r].op \in {"import", "seed"} /\ Go(r, entry)
        <4>1. /\ entry.pc = "entry" /\ entry.op = req[r].op
              /\ entry.todo = req[r].todo /\ entry.used = req[r].used
          BY <1>0 DEF Request
        <4>2. WellPlaced(entry)
          BY <3>2, <4>1 DEF WellPlaced
        <4>3. \A t \in Targets :
                MayTake(entry, t) => MayTake(req[r], t) /\ entry.op = req[r].op /\ entry.op # "update"
          BY <3>2, <4>1 DEF MayTake
        <4> HIDE DEF entry
        <4> QED
          BY <1>5, <3>2, <4>2, <4>3, GoTakesNothing DEF SaveOutput, Go
      <3>3. CASE Go(r, IdleRequest)
        BY <1>5, <3>3, FinishKeepsTargets DEF SaveOutput, Finish
      <3>4. CASE req[r].outs # {o}
        BY <3>1, <3>4
      <3>5. CASE req[r].outs = {o}
        BY <3>2, <3>3, <3>5
      <3> QED
        BY <3>4, <3>5
    <2> QED
      BY <2>1, <2>2
  <1>6. CASE PutChannel(r)
    <2> PICK c \in Rows, t \in Targets, outs \in OutputChoices, given \in BOOLEAN :
          Go(r, [IdleRequest EXCEPT
                    !.op = "update", !.pc = IF t = target[c] THEN "save" ELSE "target",
                    !.chan = c, !.target = t, !.status = status[c],
                    !.wanted = IF given THEN OrUdp(outs) ELSE {}])
      BY <1>6 DEF PutChannel
    <2> DEFINE next == [IdleRequest EXCEPT
                           !.op = "update", !.pc = IF t = target[c] THEN "save" ELSE "target",
                           !.chan = c, !.target = t, !.status = status[c],
                           !.wanted = IF given THEN OrUdp(outs) ELSE {}]
    <2>1. /\ next.pc = IF t = target[c] THEN "save" ELSE "target"
          /\ next.op = "update" /\ next.chan = c /\ next.target = t
      BY DEF IdleRequest
    <2>2. WellPlaced(next)
      BY <2>1, RegistryAssumption DEF WellPlaced, Rows
    <2>3. ASSUME NEW u \in Targets \ contested, NEW d \in Channels, MayTake(next, u), target[d] = u
          PROVE  next.op = "update" /\ next.chan = d
      <3>1. u = t /\ t = target[c]
        BY <2>1, <2>3 DEF MayTake
      <3>2. c \in Channels /\ u # None
        BY RegistryAssumption DEF Rows
      <3>3. d = c
        BY <2>3, <3>1, <3>2 DEF TargetsInv, TargetsDistinct
      <3> QED
        BY <2>1, <3>3
    <2> HIDE DEF next
    <2>4. Go(r, next)
      BY DEF next
    <2> QED
      BY <1>6, <2>2, <2>3, <2>4, GoHolding DEF PutChannel
  <1>7. CASE SaveChannel(r)
    <2> DEFINE next == IF req[r].wanted = {} THEN IdleRequest ELSE [req[r] EXCEPT !.pc = "clear"]
               c == req[r].chan
               t == req[r].target
    <2>1. req[r].pc = "save" /\ req[r].op = "update"
      BY <1>7 DEF SaveChannel
    <2>2. t \in Targets
      BY <1>0, <2>1 DEF Request, WellPlaced
    <2>3. WellPlaced(next) /\ \A u \in Targets : ~MayTake(next, u)
      <3> DEFINE clear == [req[r] EXCEPT !.pc = "clear"]
      <3>1. clear.pc = "clear" /\ clear.op = "update"
        BY <1>0, <2>1 DEF Request
      <3>2. WellPlaced(clear) /\ \A u \in Targets : ~MayTake(clear, u)
        BY <3>1 DEF WellPlaced, MayTake
      <3> HIDE DEF clear
      <3>3. next = IdleRequest \/ next = clear
        BY DEF clear
      <3> QED
        BY <3>2, <3>3, IdleTakesNothing
    <2>4. /\ target' = [target EXCEPT ![c] = t]
          /\ contested' = contested \cup DoublyHeld'
          /\ GoInserting(r, next) \/ Go(r, next)
      BY <1>7 DEF SaveChannel, GoInserting, Go
    <2>5. \A q \in Requests :
             IF q = r THEN req'[q] = next
                      ELSE req'[q] \in {req[q], [req[q] EXCEPT !.alone = FALSE]}
      <3> HIDE DEF next
      <3> QED
        BY <2>4 DEF GoInserting, Go, RegistryTypeOK
    <2>6. Holds(r, t)
      BY <2>1 DEF Holds, MayTake
    <2>7. \A d \in Channels \ {c} : target[d] = t => t \in contested
      BY <2>2, <2>6 DEF TargetsInv
    <2>8. c \in Channels
      BY <1>0, <2>1 DEF Request, WellPlaced
    <2> HIDE DEF next, c, t
    <2> QED
      BY <2>2, <2>3, <2>4, <2>5, <2>6, <2>7, <2>8, Taken
  <1>8. CASE ClearOutputs(r)
    <2> DEFINE next == [req[r] EXCEPT !.pc = "outputs", !.outs = req[r].wanted]
    <2>1. /\ next.pc = "outputs" /\ next.op = req[r].op
          /\ next.todo = req[r].todo /\ next.used = req[r].used
      BY <1>0 DEF Request
    <2>2. WellPlaced(next)
      BY <2>1 DEF WellPlaced
    <2>3. \A t \in Targets :
            MayTake(next, t) => MayTake(req[r], t) /\ next.op = req[r].op /\ next.op # "update"
      BY <2>1 DEF MayTake
    <2>4. Go(r, next) /\ UNCHANGED target
      BY <1>8 DEF ClearOutputs
    <2> HIDE DEF next
    <2> QED
      BY <2>2, <2>3, <2>4, GoTakesNothing DEF Go
  <1>9. CASE DeleteChannel(r)
    <2> PICK c \in Rows : Go(r, [IdleRequest EXCEPT !.op = "remove", !.pc = "remove", !.chan = c])
      BY <1>9 DEF DeleteChannel
    <2> DEFINE next == [IdleRequest EXCEPT !.op = "remove", !.pc = "remove", !.chan = c]
    <2>1. WellPlaced(next) /\ \A u \in Targets : ~MayTake(next, u)
      BY DEF IdleRequest, WellPlaced, MayTake
    <2>2. Go(r, next) /\ UNCHANGED target
      BY <1>9 DEF DeleteChannel
    <2> HIDE DEF next
    <2> QED
      BY <2>1, <2>2, GoTakesNothing DEF Go
  <1>10. CASE RemoveChannel(r)
    <2>1. \A c \in Channels : target'[c] \in {target[c], None}
      BY <1>10 DEF RemoveChannel, RegistryTypeOK
    <2> QED
      BY <1>10, <2>1, IdleTakesNothing, GoTakesNothing DEF RemoveChannel
  <1>11. CASE PostImport(r)
    <2> PICK n \in 1..EntryMax, outs \in OutputChoices :
          Go(r, [IdleRequest EXCEPT
                    !.op = "import", !.pc = "entry", !.todo = n,
                    !.used = {target[c] : c \in Rows},
                    !.wanted = IF outs = {} THEN {"udp", "hls"} ELSE outs])
      BY <1>11 DEF PostImport
    <2> DEFINE next == [IdleRequest EXCEPT
                           !.op = "import", !.pc = "entry", !.todo = n,
                           !.used = {target[c] : c \in Rows},
                           !.wanted = IF outs = {} THEN {"udp", "hls"} ELSE outs]
    <2>1. next.op = "import" /\ next.pc = "entry" /\ next.used = {target[c] : c \in Rows}
      BY DEF IdleRequest
    <2>2. Go(r, next) /\ UNCHANGED target
      BY <1>11 DEF PostImport
    <2>3. WellPlaced(next)
      BY <2>1 DEF WellPlaced
    <2>4. \A t \in Targets, c \in Channels : ~(MayTake(next, t) /\ target[c] = t)
      BY <2>1, RegistryAssumption DEF MayTake, Rows
    <2> HIDE DEF next
    <2> QED
      BY <2>2, <2>3, <2>4, GoHolding
  <1>12. CASE ImportEntry(r)
    <2> PICK c \in Channels, t \in Targets \ req[r].used :
          /\ Unused(c)
          /\ Insert(r, c, t,
                    [req[r] EXCEPT !.pc = "outputs", !.chan = c, !.outs = req[r].wanted,
                                   !.used = @ \cup {t}, !.todo = @ - 1])
      BY <1>12 DEF ImportEntry
    <2> DEFINE next == [req[r] EXCEPT !.pc = "outputs", !.chan = c, !.outs = req[r].wanted,
                                      !.used = @ \cup {t}, !.todo = @ - 1]
    <2>1. /\ req[r].op \in {"import", "seed"} /\ req[r].todo > 0
          /\ next.pc = "outputs" /\ next.op = req[r].op /\ next.used = req[r].used \cup {t}
      BY <1>0, <1>12 DEF Request, WellPlaced, ImportEntry
    <2>2. WellPlaced(next)
      BY <2>1 DEF WellPlaced
    <2>3. \A u \in Targets : MayTake(next, u) => MayTake(req[r], u) /\ u # t /\ req[r].op # "update"
      BY <2>1 DEF MayTake
    <2>4. Holds(r, t)
      BY <2>1 DEF Holds, MayTake
    <2>5. \A d \in Channels \ {c} : target[d] = t => t \in contested
      BY <2>1, <2>4 DEF TargetsInv
    <2>6. /\ target' = [target EXCEPT ![c] = t]
          /\ req' = [q \in Requests |-> IF q = r THEN next ELSE [req[q] EXCEPT !.alone = FALSE]]
          /\ contested' = contested \cup DoublyHeld'
      BY DEF Insert
    <2>7. t \in Targets
      OBVIOUS
    <2>8. \A q \in Requests :
             IF q = r THEN req'[q] = next
                      ELSE req'[q] \in {req[q], [req[q] EXCEPT !.alone = FALSE]}
      <3> HIDE DEF next
      <3> QED
        BY <2>6
    <2> HIDE DEF next
    <2> QED
      BY <2>2, <2>3, <2>4, <2>5, <2>6, <2>7, <2>8, Taken, ZenonT(60)
  <1>13. CASE FinishImport(r)
    BY <1>13, FinishKeepsTargets DEF FinishImport
  <1> QED
    BY <1>1, <1>2, <1>3, <1>4, <1>5, <1>6, <1>7, <1>8, <1>9, <1>10, <1>11, <1>12, <1>13
    DEF RequestStep

LEMMA NextKeepsTargets ==
    ASSUME RegistryTypeOK, TargetsInv, [Next]_vars
    PROVE  TargetsInv'
  <1> USE DEF tableVars, rowVars, histVars
  <1>1. CASE UNCHANGED <<target, req, contested>>
    BY <1>1 DEF TargetsInv, TargetsDistinct, DoublyHeld, Holds, MayTake, WellPlaced
  <1>2. ASSUME NEW c \in Channels, NEW s \in Statuses, StatusWritten(c, s)
        PROVE  TargetsInv'
    BY <1>1, <1>2 DEF StatusWritten
  <1>3. CASE ApiStarts
    <2>1. CASE Rows = {} /\ SampleTargets # {}
      <3> PICK r \in Requests :
            Go(r, [IdleRequest EXCEPT
                      !.op = "seed", !.pc = "entry", !.wanted = {"udp"},
                      !.used = Targets \ SampleTargets,
                      !.todo = Cardinality(SampleTargets)])
        BY <1>3, <2>1 DEF ApiStarts
      <3> DEFINE next == [IdleRequest EXCEPT
                             !.op = "seed", !.pc = "entry", !.wanted = {"udp"},
                             !.used = Targets \ SampleTargets,
                             !.todo = Cardinality(SampleTargets)]
      <3>1. WellPlaced(next)
        BY DEF WellPlaced, IdleRequest
      <3>2. Go(r, next) /\ UNCHANGED target
        BY <1>3 DEF ApiStarts
      <3>3. \A t \in Targets, c \in Channels : target[c] # t
        BY <2>1, RegistryAssumption DEF Rows
      <3> HIDE DEF next
      <3> QED
        BY <3>1, <3>2, <3>3, GoHolding
    <2>2. CASE ~(Rows = {} /\ SampleTargets # {})
      BY <1>1, <1>3, <2>2 DEF ApiStarts
    <2> QED
      BY <2>1, <2>2
  <1>4. CASE ApiCrashes
    <2>1. \A r \in Requests : req'[r] = IdleRequest
      BY <1>4 DEF ApiCrashes
    <2>2. \A r \in Requests : WellPlaced(req[r])'
      BY <2>1, IdleTakesNothing DEF WellPlaced
    <2>3. \A r \in Requests, t \in Targets : ~Holds(r, t)'
      BY <2>1, IdleTakesNothing DEF Holds, MayTake
    <2> QED
      BY <1>4, <2>2, <2>3, NothingTaken DEF ApiCrashes
  <1> QED
    BY <1>1, <1>2, <1>3, <1>4, RequestKeepsTargets DEF Next, LicenceChanges, vars

LEMMA InitTargets == Init => TargetsInv
  <1> SUFFICES ASSUME Init PROVE TargetsInv
    OBVIOUS
  <1>1. \A r \in Requests : req[r] = IdleRequest
    BY DEF Init
  <1>2. TargetsDistinct
    BY DEF Init, TargetsDistinct
  <1> QED
    BY <1>1, <1>2, IdleTakesNothing DEF TargetsInv, DoublyHeld, Holds

\* The overlap is recorded before it does harm: an uncontested target is held by one
\* request at most, and then no other channel has it.
THEOREM TargetsInvHolds == Spec => []TargetsInv
  <1>1. Init => RegistryTypeOK /\ TargetsInv
    BY InitTypes, InitTargets
  <1>2. RegistryTypeOK /\ TargetsInv /\ [Next]_vars => (RegistryTypeOK /\ TargetsInv)'
    BY NextTypes, NextKeepsTargets
  <1> QED
    BY <1>1, <1>2, PTL DEF Spec

\* No unique index guards the UDP targets; the checks of the handlers do, as long as no
\* two requests for one target overlap.
THEOREM TargetsStayDistinct == Spec => []TargetsDistinct
  <1>1. TargetsInv => TargetsDistinct
    BY DEF TargetsInv
  <1> QED
    BY <1>1, TargetsInvHolds, PTL

----------------------------------------------------------------------------
(* The status, the outputs and the limit.                                  *)

\* An update is between its read and its save of c.
EditOf(q, c) == q.op = "update" /\ q.chan = c /\ q.pc \in {"target", "save"}

\* A create has counted the channels and not inserted its own.
Counted(q) == q.op = "create" /\ q.pc \in {"target", "save"} /\ q.alone /\ q.max > 0

Complete(c) == \A o \in OutputType : outputs[c][o] = IF o \in asked[c] THEN 1 ELSE 0

\* Those saved so far by a request that has outs to go.
Partial(c, outs) ==
    /\ outs \subseteq asked[c]
    /\ \A o \in OutputType : outputs[c][o] = IF o \in asked[c] \ outs THEN 1 ELSE 0

\* An edit has read what was last written, unless that was written after its read.
StatusInv ==
    /\ StatusKept
    /\ \A r \in Requests, c \in Channels \ stale :
          EditOf(req[r], c) => req[r].status = written[c]

\* Requests for one channel are recorded, and one that is alone with its channel has
\* saved just what it has not to save any more.
OutputsInv ==
    /\ Crowded \subseteq tangled
    /\ OutputsAsAsked
    /\ \A r \in Requests, c \in Channels \ tangled :
          /\ req[r].chan = c /\ req[r].pc = "outputs" /\ c \in Rows => Partial(c, req[r].outs)
          /\ EditOf(req[r], c) /\ c \notin Rows => outputs[c] = NoOutputs /\ asked[c] = {}

\* Below the limit it has read there is room for the row of a create that was not run into.
LimitInv ==
    \A r \in Requests :
        /\ req[r].pc = "count" => req[r].op = "create"
        /\ Counted(req[r]) => Cardinality(Rows) < req[r].max

RowsInv == RegistryTypeOK /\ TargetsInv /\ StatusInv /\ OutputsInv /\ LimitInv

LEMMA RowsStart == Init => StatusInv /\ OutputsInv /\ LimitInv
  <1> SUFFICES ASSUME Init PROVE StatusInv /\ OutputsInv /\ LimitInv
    OBVIOUS
  <1>1. \A r \in Requests : req[r].op = None /\ req[r].pc = "idle" /\ req[r].chan = None
                            /\ req[r].alone = FALSE
    BY DEF Init, IdleRequest
  <1>2. Rows = {}
    BY DEF Init, Rows
  <1>3. Crowded = {}
    BY <1>1, RegistryAssumption DEF Crowded
  <1> QED
    BY <1>1, <1>2, <1>3
    DEF StatusInv, StatusKept, OutputsInv, OutputsAsAsked, LimitInv, EditOf, Counted

LEMMA LimitsCount == \A n \in Limits \cup {0} : n \in Nat
  <1>1. Limits \subseteq Nat
    BY Zenon, RegistryAssumption
  <1>2. 0 \in Nat
    OBVIOUS
  <1> QED
    BY Zenon, <1>1, <1>2

LEMMA RowsCount ==
    /\ IsFiniteSet(Rows) /\ Cardinality(Rows) \in Nat
    /\ \A c \in Channels \ Rows :
          /\ IsFiniteSet(Rows \cup {c})
          /\ Cardinality(Rows \cup {c}) = Cardinality(Rows) + 1
  <1>1. IsFiniteSet(Rows)
    BY RegistryAssumption, FS_Subset DEF Rows
  <1> QED
    BY <1>1, FS_CardinalityType, FS_AddElement

LEMMA FewerRows ==
    ASSUME Rows' \subseteq Rows
    PROVE  Cardinality(Rows') \in Nat /\ Cardinality(Rows') <= Cardinality(Rows)
  <1>1. IsFiniteSet(Rows')
    BY RowsCount, FS_Subset
  <1> QED
    BY <1>1, RowsCount, FS_Subset, FS_CardinalityType

\* Nobody but r is changed by a step of r, but for the mark that a row was added.
OthersKept(r) ==
    \A s \in Requests \ {r} :
        /\ req'[s].op = req[s].op /\ req'[s].pc = req[s].pc /\ req'[s].chan = req[s].chan
        /\ req'[s].status = req[s].status /\ req'[s].outs = req[s].outs
        /\ req'[s].max = req[s].max /\ (Counted(req'[s]) => Counted(req[s]))

\* Request r goes on; no row is touched, and none is saved or complete by that.
LEMMA MovesOn ==
    ASSUME RowsInv, NEW r \in Requests, NEW n, OthersKept(r), req'[r] = n,
           UNCHANGED <<target, status, outputs, asked, written, stale>>,
           tangled \subseteq tangled', Crowded' \subseteq tangled',
           n.pc # "outputs", req[r].pc # "outputs" \/ req[r].chan \notin Rows,
           n.pc = "count" => n.op = "create",
           \A c \in Channels : EditOf(n, c) =>
              \/ EditOf(req[r], c) /\ n.status = req[r].status
              \/ c \in Rows /\ n.status = status[c],
           Counted(n) => Cardinality(Rows) < n.max
    PROVE  (StatusInv /\ OutputsInv /\ LimitInv)'
  <1>1. Rows' = Rows
    BY DEF Rows
  <1>2. StatusInv'
    BY <1>1 DEF RowsInv, StatusInv, StatusKept, OthersKept, EditOf
  <1>3. OutputsAsAsked'
    <2> SUFFICES ASSUME NEW c \in Rows \ tangled', \A s \in Requests : req'[s].chan = c => req'[s].pc # "outputs"
                 PROVE  Complete(c)
      BY <1>1 DEF OutputsAsAsked, Complete
    <2>1. \A s \in Requests : req[s].chan = c => req[s].pc # "outputs"
      BY DEF OthersKept, Rows
    <2> QED
      BY <2>1 DEF RowsInv, OutputsInv, OutputsAsAsked, Complete
  <1>4. ASSUME NEW s \in Requests, NEW c \in Channels \ tangled'
        PROVE  /\ req'[s].chan = c /\ req'[s].pc = "outputs" /\ c \in Rows => Partial(c, req'[s].outs)
               /\ EditOf(req'[s], c) /\ c \notin Rows => outputs[c] = NoOutputs /\ asked[c] = {}
    BY DEF RowsInv, OutputsInv, OthersKept, EditOf
  <1>5. LimitInv'
    BY <1>1 DEF RowsInv, LimitInv, OthersKept
  <1> QED
    BY <1>1, <1>2, <1>3, <1>4, <1>5 DEF OutputsInv, Partial

\* Row c is new, and r goes on to save its outputs.
LEMMA RowAdded ==
    ASSUME RowsInv, NEW r \in Requests, NEW c \in Channels, NEW t \in Targets, NEW n \in Request,
           Unused(c), Insert(r, c, t, n), req[r].pc # "outputs", n.pc = "outputs", n.chan = c, n.outs = n.wanted
    PROVE  (StatusInv /\ OutputsInv /\ LimitInv)' /\ Rows' = Rows \cup {c} /\ c \notin Rows
  <1>1. /\ target' = [target EXCEPT ![c] = t] /\ status' = [status EXCEPT ![c] = "stopped"]
        /\ outputs' = [outputs EXCEPT ![c] = NoOutputs] /\ asked' = [asked EXCEPT ![c] = n.wanted]
        /\ written' = [written EXCEPT ![c] = "stopped"]
        /\ tangled' = tangled \ {c} /\ stale' = stale \ {c}
        /\ req' = [q \in Requests |-> IF q = r THEN n ELSE [req[q] EXCEPT !.alone = FALSE]]
    BY DEF Insert
  <1>2. RegistryTypeOK
    BY DEF RowsInv
  <1>3. \A s \in Requests \ {r} :
           /\ req'[s].op = req[s].op /\ req'[s].pc = req[s].pc /\ req'[s].chan = req[s].chan
           /\ req'[s].status = req[s].status /\ req'[s].outs = req[s].outs
           /\ ~Counted(req'[s])
    <2> TAKE s \in Requests \ {r}
    <2>1. req[s] \in Request /\ req'[s] = [req[s] EXCEPT !.alone = FALSE]
      BY <1>1, <1>2 DEF RegistryTypeOK
    <2> QED
      BY <2>1 DEF Request, Counted
  <1>4. req'[r] = n
    BY <1>1
  <1>5. /\ \A d \in Channels \ {c} : /\ target'[d] = target[d] /\ status'[d] = status[d]
                                     /\ outputs'[d] = outputs[d] /\ asked'[d] = asked[d]
                                     /\ written'[d] = written[d]
        /\ target'[c] = t /\ status'[c] = "stopped" /\ written'[c] = "stopped"
        /\ outputs'[c] = NoOutputs /\ asked'[c] = n.wanted
    BY <1>1, <1>2 DEF RegistryTypeOK
  <1>6. \A s \in Requests : req[s].chan # c
    BY DEF Unused
  <1>7. Rows' = Rows \cup {c} /\ c \notin Rows
    BY <1>5, RegistryAssumption DEF Rows, Unused
  <1>8. StatusInv'
    <2>1. StatusKept'
      BY <1>1, <1>5, <1>7 DEF RowsInv, StatusInv, StatusKept
    <2>2. ASSUME NEW s \in Requests, NEW d \in Channels \ stale', EditOf(req'[s], d)
          PROVE  req'[s].status = written'[d]
      <3>1. s # r /\ d # c
        BY <1>3, <1>4, <1>6, <2>2 DEF EditOf
      <3>2. EditOf(req[s], d) /\ d \in Channels \ stale /\ req'[s].status = req[s].status
        BY <1>1, <1>3, <2>2, <3>1 DEF EditOf
      <3>3. req[s].status = written[d]
        BY <3>2 DEF RowsInv, StatusInv
      <3> QED
        BY <1>5, <3>1, <3>2, <3>3
    <2> QED
      BY <2>1, <2>2 DEF StatusInv, EditOf
  <1>9. (Crowded \subseteq tangled)'
    <2> SUFFICES ASSUME NEW d \in Channels, NEW s \in Requests, NEW u \in Requests, s # u,
                        req'[s].chan = d, req'[u].chan = d
                 PROVE  d \in tangled'
      BY DEF Crowded
    <2>1. d # c
      BY <1>3, <1>6
    <2>2. s # r /\ u # r
      BY <1>4, <2>1
    <2> QED
      BY <1>1, <1>3, <2>1, <2>2 DEF RowsInv, OutputsInv, Crowded
  <1>10. ASSUME NEW d \in Rows' \ tangled', \A s \in Requests : req'[s].chan = d => req'[s].pc # "outputs"
         PROVE  Complete(d)'
    <2>1. d # c
      BY <1>4, <1>10
    <2>2. d \in Rows \ tangled
      BY <1>1, <1>7, <1>10, <2>1
    <2>3. \A s \in Requests : req[s].chan = d => req[s].pc # "outputs"
      BY <1>3, <1>10
    <2>4. d \in Channels /\ Complete(d)
      BY <2>2, <2>3 DEF RowsInv, OutputsInv, OutputsAsAsked, Complete, Rows
    <2> QED
      BY <1>5, <2>1, <2>4 DEF Complete
  <1>11. \A d \in Channels : req'[r].chan = d => Partial(d, req[r].outs)' /\ ~EditOf(req'[r], d)
    BY <1>4, <1>5 DEF Partial, NoOutputs, EditOf
  <1>14. ASSUME NEW s \in Requests \ {r}, NEW d \in Channels \ tangled'
         PROVE  /\ req'[s].chan = d /\ req'[s].pc = "outputs" /\ d \in Rows' => Partial(d, req[s].outs)'
                /\ EditOf(req'[s], d) /\ d \notin Rows' => outputs'[d] = NoOutputs /\ asked'[d] = {}
    <2>1. req'[s].chan = d => d # c /\ d \notin tangled /\ (d \in Rows' <=> d \in Rows)
      BY <1>1, <1>3, <1>6, <1>7
    <2>2. /\ req[s].chan = d /\ req[s].pc = "outputs" /\ d \in Rows => Partial(d, req[s].outs)
          /\ EditOf(req[s], d) /\ d \notin Rows => outputs[d] = NoOutputs /\ asked[d] = {}
      <3>1. req[s].chan = d => d \in Channels \ tangled
        BY <1>3, <1>14, <2>1
      <3> QED
        BY <3>1 DEF RowsInv, OutputsInv, EditOf
    <2> QED
      BY <1>3, <1>5, <2>1, <2>2 DEF EditOf, Partial
  <1>12. OutputsInv'
    <2>1. OutputsAsAsked'
      BY <1>10 DEF OutputsAsAsked, Complete
    <2>2. ASSUME NEW s \in Requests, NEW d \in Channels \ tangled'
          PROVE  /\ req'[s].chan = d /\ req'[s].pc = "outputs" /\ d \in Rows' => Partial(d, req[s].outs)'
                 /\ EditOf(req'[s], d) /\ d \notin Rows' => outputs'[d] = NoOutputs /\ asked'[d] = {}
      <3>1. CASE s = r
        BY <1>11, <3>1 DEF EditOf
      <3> QED
        BY <1>14, <3>1
    <2> QED
      BY <1>9, <2>1, <2>2 DEF OutputsInv, EditOf
  <1>13. LimitInv'
    BY <1>3, <1>4 DEF RowsInv, LimitInv, Counted
  <1> QED
    BY <1>7, <1>8, <1>12, <1>13

LEMMA GoOthers ==
    ASSUME RegistryTypeOK, NEW r \in Requests, NEW n, Go(r, n)
    PROVE  OthersKept(r) /\ req'[r] = n /\ tangled \subseteq tangled' /\ Crowded' \subseteq tangled'
  BY DEF Go, RegistryTypeOK, OthersKept

LEMMA IdleMoves ==
    /\ IdleRequest.pc = "idle" /\ ~Counted(IdleRequest) /\ \A c : ~EditOf(IdleRequest, c)
  BY DEF IdleRequest, Counted, EditOf

\* A request that ends without having touched a row.
LEMMA Finishes ==
    ASSUME RowsInv, NEW r \in Requests, Finish(r),
           UNCHANGED <<target, status, outputs, asked, written, stale>>,
           req[r].pc # "outputs" \/ req[r].chan \notin Rows
    PROVE  (StatusInv /\ OutputsInv /\ LimitInv)'
  BY GoOthers, IdleMoves, MovesOn DEF Finish, RowsInv

LEMMA RequestKeepsRows ==
    ASSUME RowsInv, NEW r \in Requests,
           \/ PostChannel(r) \/ CountChannels(r) \/ CheckTarget(r) \/ PutChannel(r)
           \/ DeleteChannel(r) \/ PostImport(r) \/ FinishImport(r)
    PROVE  (StatusInv /\ OutputsInv /\ LimitInv)'
  <1> USE DEF tableVars, rowVars
  <1>0. RegistryTypeOK /\ req[r] \in Request /\ WellPlaced(req[r])
    BY DEF RowsInv, RegistryTypeOK, TargetsInv
  <1>1. CASE PostChannel(r)
    <2> PICK t \in Targets, outs \in OutputChoices :
          Go(r, [IdleRequest EXCEPT !.op = "create", !.pc = "count", !.target = t,
                                    !.wanted = OrUdp(outs), !.max = limit])
      BY <1>1 DEF PostChannel
    <2> DEFINE n == [IdleRequest EXCEPT !.op = "create", !.pc = "count", !.target = t,
                                        !.wanted = OrUdp(outs), !.max = limit]
    <2>1. Go(r, n) /\ n.op = "create" /\ n.pc = "count" /\ req[r].pc = "idle"
      BY <1>1 DEF IdleRequest, PostChannel, Arrives
    <2> HIDE DEF n
    <2> QED
      BY <1>0, <1>1, <2>1, GoOthers, MovesOn DEF PostChannel, EditOf, Counted
  <1>2. CASE CountChannels(r)
    <2> DEFINE n == [req[r] EXCEPT !.pc = "target", !.alone = TRUE]
    <2>1. CASE Go(r, n) /\ ~(req[r].max > 0 /\ Cardinality(Rows) >= req[r].max)
      <3>1. n.op = "create" /\ n.pc = "target" /\ n.max = req[r].max /\ req[r].pc = "count"
            /\ req[r].max \in Nat
        BY <1>0, <1>2, RegistryAssumption DEF CountChannels, Request, RowsInv, LimitInv
      <3> HIDE DEF n
      <3>2. Counted(n) => Cardinality(Rows) < n.max
        BY <2>1, <3>1, RowsCount DEF Counted
      <3> QED
        BY <1>0, <1>2, <2>1, <3>1, <3>2, GoOthers, MovesOn DEF CountChannels, EditOf
    <2>2. CASE Finish(r)
      BY <1>2, <2>2, Finishes DEF CountChannels
    <2> QED
      BY <1>2, <2>1, <2>2 DEF CountChannels
  <1>3. CASE CheckTarget(r)
    <2> DEFINE n == [req[r] EXCEPT !.pc = "save"]
    <2>1. CASE Go(r, n)
      <3>1. n.op = req[r].op /\ n.pc = "save" /\ n.max = req[r].max /\ n.alone = req[r].alone
            /\ n.chan = req[r].chan /\ n.status = req[r].status /\ req[r].pc = "target"
        BY <1>0, <1>3 DEF CheckTarget, Request
      <3> HIDE DEF n
      <3>2. Counted(n) => Cardinality(Rows) < n.max
        BY <3>1 DEF Counted, RowsInv, LimitInv
      <3>3. \A c \in Channels : EditOf(n, c) =>
               \/ EditOf(req[r], c) /\ n.status = req[r].status
               \/ c \in Rows /\ n.status = status[c]
        BY <3>1 DEF EditOf
      <3>4. UNCHANGED <<target, status, outputs, asked, written, stale>>
        BY <1>3 DEF CheckTarget
      <3>5. OthersKept(r) /\ req'[r] = n /\ tangled \subseteq tangled' /\ Crowded' \subseteq tangled'
        BY <1>0, <2>1, GoOthers
      <3> QED
        BY <3>1, <3>2, <3>3, <3>4, <3>5, MovesOn
    <2>2. CASE Finish(r)
      BY <1>3, <2>2, Finishes DEF CheckTarget
    <2> QED
      BY <1>3, <2>1, <2>2 DEF CheckTarget
  <1>4. CASE PutChannel(r)
    <2> PICK c \in Rows, t \in Targets, outs \in OutputChoices, given \in BOOLEAN :
          Go(r, [IdleRequest EXCEPT
                    !.op = "update", !.pc = IF t = target[c] THEN "save" ELSE "target",
                    !.chan = c, !.target = t, !.status = status[c],
                    !.wanted = IF given THEN OrUdp(outs) ELSE {}])
      BY <1>4 DEF PutChannel
    <2> DEFINE n == [IdleRequest EXCEPT
                    !.op = "update", !.pc = IF t = target[c] THEN "save" ELSE "target",
                    !.chan = c, !.target = t, !.status = status[c],
                    !.wanted = IF given THEN OrUdp(outs) ELSE {}]
    <2>1. Go(r, n) /\ n.op = "update" /\ n.pc \in {"target", "save"} /\ n.chan = c
          /\ n.status = status[c] /\ req[r].pc = "idle"
      BY <1>4 DEF IdleRequest, PutChannel, Arrives
    <2> HIDE DEF n
    <2>2. \A d \in Channels : EditOf(n, d) =>
             \/ EditOf(req[r], d) /\ n.status = req[r].status
             \/ d \in Rows /\ n.status = status[d]
      BY <2>1 DEF EditOf
    <2>3. UNCHANGED <<target, status, outputs, asked, written, stale>>
      BY <1>4 DEF PutChannel
    <2>4. OthersKept(r) /\ req'[r] = n /\ tangled \subseteq tangled' /\ Crowded' \subseteq tangled'
      BY <1>0, <2>1, GoOthers
    <2>5. ~Counted(n) /\ n.pc # "outputs" /\ n.pc # "count" /\ req[r].pc # "outputs"
      BY <2>1 DEF Counted
    <2> QED
      BY <2>2, <2>3, <2>4, <2>5, MovesOn
  <1>5. CASE DeleteChannel(r)
    <2> PICK c \in Rows : Go(r, [IdleRequest EXCEPT !.op = "remove", !.pc = "remove", !.chan = c])
      BY <1>5 DEF DeleteChannel
    <2> DEFINE n == [IdleRequest EXCEPT !.op = "remove", !.pc = "remove", !.chan = c]
    <2>1. Go(r, n) /\ n.op = "remove" /\ n.pc = "remove" /\ req[r].pc = "idle"
      BY <1>5 DEF IdleRequest, DeleteChannel, Arrives
    <2> HIDE DEF n
    <2> QED
      BY <1>0, <1>5, <2>1, GoOthers, MovesOn DEF DeleteChannel, EditOf, Counted
  <1>6. CASE PostImport(r)
    <2> PICK m \in 1..EntryMax, outs \in OutputChoices :
          Go(r, [IdleRequest EXCEPT
                    !.op = "import", !.pc = "entry", !.todo = m,
                    !.used = {target[c] : c \in Rows},
                    !.wanted = IF outs = {} THEN {"udp", "hls"} ELSE outs])
      BY <1>6 DEF PostImport
    <2> DEFINE n == [IdleRequest EXCEPT
                    !.op = "import", !.pc = "entry", !.todo = m,
                    !.used = {target[c] : c \in Rows},
                    !.wanted = IF outs = {} THEN {"udp", "hls"} ELSE outs]
    <2>1. Go(r, n) /\ n.op = "import" /\ n.pc = "entry" /\ req[r].pc = "idle"
      BY <1>6 DEF IdleRequest, PostImport, Arrives
    <2> HIDE DEF n
    <2> QED
      BY <1>0, <1>6, <2>1, GoOthers, MovesOn DEF PostImport, EditOf, Counted
  <1>7. CASE FinishImport(r)
    BY <1>7, Finishes DEF FinishImport
  <1> QED
    BY <1>1, <1>2, <1>3, <1>4, <1>5, <1>6, <1>7

LEMMA InsertsKeepRows ==
    ASSUME RowsInv, NEW r \in Requests, InsertChannel(r) \/ ImportEntry(r)
    PROVE  (StatusInv /\ OutputsInv /\ LimitInv)' /\ \E c \in Channels \ Rows : Rows' = Rows \cup {c}
  <1>0. RegistryTypeOK /\ req[r] \in Request /\ WellPlaced(req[r])
    BY DEF RowsInv, RegistryTypeOK, TargetsInv
  <1>1. CASE InsertChannel(r)
    <2> PICK c \in Channels :
          /\ Unused(c)
          /\ Insert(r, c, req[r].target,
                    [req[r] EXCEPT !.pc = "outputs", !.chan = c, !.outs = req[r].wanted])
      BY <1>1 DEF InsertChannel
    <2> DEFINE n == [req[r] EXCEPT !.pc = "outputs", !.chan = c, !.outs = req[r].wanted]
    <2>1. /\ n \in Request /\ n.pc = "outputs" /\ n.chan = c /\ n.outs = n.wanted
          /\ req[r].target \in Targets /\ req[r].pc = "save"
      BY <1>0, <1>1 DEF InsertChannel, Request, Pc, WellPlaced
    <2> HIDE DEF n
    <2>2. Insert(r, c, req[r].target, n)
      BY DEF n
    <2> QED
      BY <2>1, <2>2, RowAdded
  <1>2. CASE ImportEntry(r)
    <2> PICK c \in Channels, t \in Targets \ req[r].used :
          /\ Unused(c)
          /\ Insert(r, c, t,
                    [req[r] EXCEPT !.pc = "outputs", !.chan = c, !.outs = req[r].wanted,
                                   !.used = @ \cup {t}, !.todo = @ - 1])
      BY <1>2 DEF ImportEntry
    <2> DEFINE n == [req[r] EXCEPT !.pc = "outputs", !.chan = c, !.outs = req[r].wanted,
                                   !.used = @ \cup {t}, !.todo = @ - 1]
    <2>1. req[r].todo - 1 \in 0..EntryMax
      <3>1. req[r].todo \in 0..EntryMax /\ req[r].todo > 0 /\ EntryMax \in Nat
        BY <1>0, <1>2, RegistryAssumption DEF ImportEntry, Request
      <3> QED
        BY <3>1
    <2>2. /\ n \in Request /\ n.pc = "outputs" /\ n.chan = c /\ n.outs = n.wanted
          /\ req[r].pc = "entry"
      BY <1>0, <1>2, <2>1 DEF ImportEntry, Request, Pc
    <2> HIDE DEF n
    <2>3. Insert(r, c, t, n)
      BY DEF n
    <2> QED
      BY <2>2, <2>3, RowAdded
  <1> QED
    BY <1>1, <1>2

\* saveOutputs adds a row; what it has saved and what it has to save are what was asked.
LEMMA SaveOutputKeepsRows ==
    ASSUME RowsInv, NEW r \in Requests, SaveOutput(r)
    PROVE  (StatusInv /\ OutputsInv /\ LimitInv)'
  <1> DEFINE c == req[r].chan
  <1>0. RegistryTypeOK /\ req[r] \in Request /\ req[r].pc = "outputs"
    BY DEF RowsInv, RegistryTypeOK, SaveOutput
  <1>1. CASE target[c] = None
    <2>1. c \notin Rows
      BY <1>1 DEF Rows
    <2> QED
      BY <1>1, <2>1, Finishes DEF SaveOutput
  <1>2. CASE target[c] # None
    <2> PICK o \in req[r].outs :
          /\ outputs' = [outputs EXCEPT ![c][o] = @ + 1]
          /\ Go(r, CASE req[r].outs # {o} -> [req[r] EXCEPT !.outs = @ \ {o}]
                     [] req[r].outs = {o} /\ req[r].op \in {"import", "seed"} ->
                          [req[r] EXCEPT !.outs = {}, !.pc = "entry", !.chan = None]
                     [] OTHER -> IdleRequest)
      BY <1>2 DEF SaveOutput
    <2> DEFINE more == [req[r] EXCEPT !.outs = @ \ {o}]
               entry == [req[r] EXCEPT !.outs = {}, !.pc = "entry", !.chan = None]
               n == req'[r]
    <2>1. \/ Go(r, more) /\ req[r].outs # {o}
          \/ Go(r, entry) /\ req[r].outs = {o}
          \/ Go(r, IdleRequest) /\ req[r].outs = {o}
      <3>1. CASE req[r].outs # {o}
        BY <3>1
      <3>2. CASE req[r].outs = {o}
        BY <3>2
      <3> QED
        BY <3>1, <3>2
    <2>2. OthersKept(r) /\ tangled \subseteq tangled' /\ Crowded' \subseteq tangled'
      BY <1>0, <2>1, GoOthers
    <2>3. \/ n.pc = "outputs" /\ n.chan = c /\ n.outs = req[r].outs \ {o} /\ n.op = req[r].op
          \/ n.pc \in {"entry", "idle"} /\ req[r].outs = {o}
      <3>1. /\ more.pc = "outputs" /\ more.chan = c /\ more.outs = req[r].outs \ {o}
            /\ more.op = req[r].op /\ entry.pc = "entry" /\ IdleRequest.pc = "idle"
        BY <1>0 DEF Request, IdleRequest
      <3> HIDE DEF more, entry
      <3> QED
        BY <1>0, <2>1, <3>1, GoOthers
    <2>4. ~Counted(n) /\ n.pc # "count" /\ \A d \in Channels : ~EditOf(n, d)
      BY <2>3 DEF Counted, EditOf
    <2>5. /\ UNCHANGED <<target, status, asked, written, stale>> /\ Rows' = Rows
          /\ \A d \in Channels \ {c} : outputs'[d] = outputs[d]
      BY <1>0 DEF SaveOutput, Rows, RegistryTypeOK
    <2> HIDE DEF n
    <2>6. ASSUME c \in Channels \ tangled'
          PROVE  /\ req[r].outs \subseteq asked[c]
                 /\ \A p \in OutputType :
                       outputs'[c][p] = IF p \in asked[c] \ (req[r].outs \ {o}) THEN 1 ELSE 0
      <3>1. Partial(c, req[r].outs) /\ c \in Rows
        BY <1>0, <1>2, <2>2, <2>6 DEF RowsInv, OutputsInv, Rows
      <3>2. outputs[c] \in [OutputType -> Nat] /\ o \in OutputType
        BY <1>0, <2>6 DEF RegistryTypeOK, Request
      <3>3. outputs'[c] = [outputs[c] EXCEPT ![o] = @ + 1]
        BY <1>0, <2>6 DEF RegistryTypeOK
      <3>4. ASSUME NEW p \in OutputType
            PROVE  outputs'[c][p] = IF p \in asked[c] \ (req[r].outs \ {o}) THEN 1 ELSE 0
        <4>1. outputs'[c][p] = IF p = o THEN outputs[c][o] + 1 ELSE outputs[c][p]
          BY <3>2, <3>3
        <4>2. outputs[c][o] = 0 /\ o \in asked[c]
          BY <3>1, <3>2 DEF Partial
        <4> QED
          BY <3>1, <4>1, <4>2 DEF Partial
      <3> QED
        BY <3>1, <3>4 DEF Partial
    <2>7. StatusInv'
      BY <2>2, <2>4, <2>5 DEF RowsInv, StatusInv, StatusKept, OthersKept, EditOf, n
    <2>8. LimitInv'
      BY <2>2, <2>4, <2>5 DEF RowsInv, LimitInv, OthersKept, n
    <2>9. ASSUME NEW d \in Rows' \ tangled', \A s \in Requests : req'[s].chan = d => req'[s].pc # "outputs"
          PROVE  Complete(d)'
      <3>1. d \in Channels \ tangled'
        BY <2>9 DEF Rows
      <3>2. CASE d = c
        <4>1. req[r].outs = {o}
          BY <2>3, <2>9, <3>2 DEF n
        <4> QED
          BY <2>5, <2>6, <3>1, <3>2, <4>1 DEF Complete
      <3>3. CASE d # c
        <4>1. \A s \in Requests : req[s].chan = d => req[s].pc # "outputs"
          BY <2>2, <2>9, <3>3 DEF OthersKept
        <4>2. Complete(d)
          BY <2>2, <2>5, <2>9, <4>1 DEF RowsInv, OutputsInv, OutputsAsAsked, Complete
        <4> QED
          BY <2>5, <3>1, <3>3, <4>2 DEF Complete
      <3> QED
        BY <3>2, <3>3
    <2>10. ASSUME NEW s \in Requests, NEW d \in Channels \ tangled'
           PROVE  /\ req'[s].chan = d /\ req'[s].pc = "outputs" /\ d \in Rows' =>
                       req'[s].outs \subseteq asked[d]
                       /\ \A p \in OutputType :
                             outputs'[d][p] = IF p \in asked[d] \ req'[s].outs THEN 1 ELSE 0
                  /\ EditOf(req'[s], d) /\ d \notin Rows' => outputs'[d] = NoOutputs /\ asked[d] = {}
      <3>1. CASE s = r
        BY <2>3, <2>4, <2>6, <3>1 DEF n
      <3>2. CASE s # r /\ d = c
        <4>1. req'[s].chan # c
          BY <2>2, <3>2 DEF OthersKept, RowsInv, OutputsInv, Crowded
        <4> QED
          BY <3>2, <4>1 DEF EditOf
      <3>3. CASE s # r /\ d # c
        <4>1. d \in Channels \ tangled /\ outputs'[d] = outputs[d] /\ Rows' = Rows
          BY <2>2, <2>5, <3>3
        <4>2. /\ req[s].chan = d /\ req[s].pc = "outputs" /\ d \in Rows => Partial(d, req[s].outs)
              /\ EditOf(req[s], d) /\ d \notin Rows => outputs[d] = NoOutputs /\ asked[d] = {}
          BY <4>1 DEF RowsInv, OutputsInv
        <4> QED
          BY <2>2, <3>3, <4>1, <4>2 DEF OthersKept, Partial, EditOf
      <3> QED
        BY <3>1, <3>2, <3>3
    <2>11. OutputsInv'
      BY <2>2, <2>5, <2>9, <2>10 DEF OutputsInv, OutputsAsAsked, Complete, Partial, EditOf
    <2> QED
      BY <2>7, <2>8, <2>11
  <1> QED
    BY <1>1, <1>2

\* An edit writes back the status it has read.
LEMMA SaveChannelKeepsRows ==
    ASSUME RowsInv, NEW r \in Requests, SaveChannel(r)
    PROVE  (StatusInv /\ OutputsInv /\ LimitInv)'
  <1> DEFINE c == req[r].chan
             q == IF req[r].wanted = {} THEN IdleRequest ELSE [req[r] EXCEPT !.pc = "clear"]
             n == req'[r]
  <1>0. /\ RegistryTypeOK /\ req[r] \in Request /\ EditOf(req[r], c) /\ req[r].pc = "save"
        /\ c \in Channels /\ req[r].target \in Targets /\ None \notin Targets
    BY RegistryAssumption DEF RowsInv, RegistryTypeOK, TargetsInv, WellPlaced, SaveChannel, EditOf, Request
  <1>1. /\ \A d \in Channels \ {c} : target'[d] = target[d] /\ status'[d] = status[d]
        /\ target'[c] = req[r].target /\ status'[c] = req[r].status
        /\ UNCHANGED <<outputs, asked, written, stale>>
    BY <1>0 DEF SaveChannel, RegistryTypeOK
  <1>2. Rows' = Rows \cup {c}
    BY <1>0, <1>1 DEF Rows
  <1>3. /\ q.pc \in {"idle", "clear"}
        /\ q.pc = "clear" => q.op = "update"
    <2>1. CASE req[r].wanted = {}
      BY <2>1, IdleMoves
    <2>2. CASE req[r].wanted # {}
      BY <1>0, <2>2 DEF Request, EditOf
    <2> QED
      BY <2>1, <2>2
  <1> HIDE DEF q
  <1>4. IF c \notin Rows THEN GoInserting(r, q) ELSE Go(r, q)
    BY <1>0 DEF SaveChannel, Rows, q
  <1>5. /\ n = q /\ tangled' = tangled \cup Crowded'
        /\ c \notin Rows => \A s \in Requests \ {r} : req'[s] = [req[s] EXCEPT !.alone = FALSE]
        /\ c \in Rows => \A s \in Requests \ {r} : req'[s] = req[s]
    BY <1>0, <1>4 DEF GoInserting, Go, RegistryTypeOK
  <1>6. /\ OthersKept(r)
        /\ c \notin Rows => \A s \in Requests \ {r} : ~Counted(req'[s])
    <2>1. \A s \in Requests : req[s] \in Request
      BY <1>0 DEF RegistryTypeOK
    <2>2. \A s \in Requests \ {r} :
            /\ req'[s].op = req[s].op /\ req'[s].pc = req[s].pc /\ req'[s].chan = req[s].chan
            /\ req'[s].status = req[s].status /\ req'[s].outs = req[s].outs
            /\ req'[s].max = req[s].max /\ (req'[s].alone => req[s].alone)
            /\ (c \notin Rows => req'[s].alone = FALSE)
      <3> TAKE s \in Requests \ {r}
      <3>1. CASE c \in Rows
        BY <1>5, <3>1
      <3>2. CASE c \notin Rows
        <4>1. req[s] \in Request /\ req'[s] = [req[s] EXCEPT !.alone = FALSE]
          BY <1>5, <2>1, <3>2
        <4> QED
          BY <4>1 DEF Request
      <3> QED
        BY <3>1, <3>2
    <2> QED
      BY <2>2 DEF OthersKept, Counted
  <1>7. ~Counted(n) /\ n.pc \notin {"count", "outputs"} /\ \A d \in Channels : ~EditOf(n, d)
    BY <1>3, <1>5 DEF Counted, EditOf
  <1> HIDE DEF n
  <1>8. StatusInv'
    <2>1. StatusKept'
      BY <1>0, <1>1, <1>2 DEF RowsInv, StatusInv, StatusKept, Rows
    <2>2. ASSUME NEW s \in Requests, NEW d \in Channels \ stale', EditOf(req'[s], d)
          PROVE  req'[s].status = written'[d]
      <3>1. s # r
        BY <1>7, <2>2 DEF n
      <3> QED
        BY <1>1, <1>6, <2>2, <3>1 DEF RowsInv, StatusInv, OthersKept, EditOf
    <2> QED
      BY <2>1, <2>2 DEF StatusInv, EditOf
  <1>9. LimitInv'
    <2> SUFFICES ASSUME NEW s \in Requests
                 PROVE  /\ req'[s].pc = "count" => req'[s].op = "create"
                        /\ Counted(req'[s]) => Cardinality(Rows') < req'[s].max
      BY DEF LimitInv, Counted
    <2>1. CASE s = r
      BY <1>7, <2>1 DEF n
    <2>2. CASE s # r
      <3>1. Counted(req'[s]) => Rows' = Rows /\ Counted(req[s])
        BY <1>2, <1>6, <2>2 DEF OthersKept
      <3> QED
        BY <1>6, <2>2, <3>1 DEF OthersKept, RowsInv, LimitInv
    <2> QED
      BY <2>1, <2>2
  <1>10. c \notin tangled' => \A s \in Requests \ {r} : req[s].chan # c /\ req'[s].chan # c
    BY <1>0, <1>5, <1>6 DEF OthersKept, RowsInv, OutputsInv, Crowded
  <1>11. ASSUME NEW d \in Rows' \ tangled', \A s \in Requests : req'[s].chan = d => req'[s].pc # "outputs"
         PROVE  Complete(d)'
    <2>1. CASE d = c /\ c \in Rows
      <3>1. \A s \in Requests : req[s].chan = d => req[s].pc # "outputs"
        BY <1>0, <1>10, <1>11, <2>1
      <3>2. Complete(d)
        BY <1>5, <1>11, <2>1, <3>1 DEF RowsInv, OutputsInv, OutputsAsAsked, Complete
      <3> QED
        BY <1>1, <3>2 DEF Complete
    <2>2. CASE d = c /\ c \notin Rows
      <3>1. outputs[c] = NoOutputs /\ asked[c] = {}
        BY <1>0, <1>5, <1>11, <2>2 DEF RowsInv, OutputsInv
      <3> QED
        BY <1>1, <2>2, <3>1 DEF Complete, NoOutputs
    <2>3. CASE d # c
      <3>1. \A s \in Requests : req[s].chan = d => req[s].pc # "outputs"
        BY <1>0, <1>6, <1>11, <2>3 DEF OthersKept
      <3>2. Complete(d)
        BY <1>2, <1>5, <1>11, <2>3, <3>1 DEF RowsInv, OutputsInv, OutputsAsAsked, Complete
      <3> QED
        BY <1>1, <3>2 DEF Complete
    <2> QED
      BY <2>1, <2>2, <2>3
  <1>12. ASSUME NEW s \in Requests, NEW d \in Channels \ tangled'
         PROVE  /\ req'[s].chan = d /\ req'[s].pc = "outputs" /\ d \in Rows' => Partial(d, req'[s].outs)
                /\ EditOf(req'[s], d) /\ d \notin Rows' => outputs[d] = NoOutputs /\ asked[d] = {}
    <2>1. CASE s = r
      BY <1>7, <2>1 DEF n
    <2>2. CASE s # r
      <3>1. req'[s].chan = d => d # c /\ d \in Channels \ tangled /\ (d \in Rows' <=> d \in Rows)
        BY <1>2, <1>5, <1>10, <2>2
      <3>2. req[s].chan = d /\ d \in Channels \ tangled =>
              /\ req[s].pc = "outputs" /\ d \in Rows => Partial(d, req[s].outs)
              /\ EditOf(req[s], d) /\ d \notin Rows => outputs[d] = NoOutputs /\ asked[d] = {}
        BY DEF RowsInv, OutputsInv
      <3> QED
        BY <1>6, <2>2, <3>1, <3>2 DEF OthersKept, EditOf
    <2> QED
      BY <2>1, <2>2
  <1>13. OutputsInv'
    BY <1>1, <1>5, <1>11, <1>12 DEF OutputsInv, OutputsAsAsked, Complete, Partial, EditOf
  <1> QED
    BY <1>8, <1>9, <1>13

LEMMA ClearKeepsRows ==
    ASSUME RowsInv, NEW r \in Requests, ClearOutputs(r)
    PROVE  (StatusInv /\ OutputsInv /\ LimitInv)'
  <1> DEFINE c == req[r].chan
             q == [req[r] EXCEPT !.pc = "outputs", !.outs = req[r].wanted]
             n == req'[r]
  <1>0. RegistryTypeOK /\ req[r] \in Request /\ req[r].pc = "clear"
    BY DEF RowsInv, RegistryTypeOK, ClearOutputs
  <1>1. /\ \A d \in Channels \ {c} : outputs'[d] = outputs[d] /\ asked'[d] = asked[d]
        /\ c \in Channels => outputs'[c] = NoOutputs /\ asked'[c] = req[r].wanted
        /\ UNCHANGED <<target, status, written, stale>> /\ Rows' = Rows
    BY <1>0 DEF ClearOutputs, RegistryTypeOK, Rows
  <1>2. q.pc = "outputs" /\ q.chan = c /\ q.outs = req[r].wanted
    BY <1>0 DEF Request
  <1> HIDE DEF q
  <1>3. /\ n = q /\ OthersKept(r) /\ tangled \subseteq tangled' /\ Crowded' \subseteq tangled'
    BY <1>0, GoOthers DEF ClearOutputs, q
  <1>4. ~Counted(n) /\ n.pc # "count" /\ \A d \in Channels : ~EditOf(n, d)
    BY <1>2, <1>3 DEF Counted, EditOf
  <1>5. n.pc = "outputs" /\ n.chan = c /\ n.outs = req[r].wanted
    BY <1>2, <1>3
  <1> HIDE DEF n
  <1>6. StatusInv'
    BY <1>1, <1>3, <1>4 DEF RowsInv, StatusInv, StatusKept, OthersKept, EditOf, n
  <1>7. LimitInv'
    BY <1>1, <1>3, <1>4 DEF RowsInv, LimitInv, OthersKept, n
  <1>8. ASSUME NEW d \in Rows' \ tangled', \A s \in Requests : req'[s].chan = d => req'[s].pc # "outputs"
        PROVE  Complete(d)'
    <2>1. d # c
      BY <1>5, <1>8 DEF n
    <2>2. \A s \in Requests : req[s].chan = d => req[s].pc # "outputs"
      BY <1>3, <1>8, <2>1 DEF OthersKept
    <2>3. Complete(d) /\ d \in Channels
      BY <1>1, <1>3, <1>8, <2>2 DEF RowsInv, OutputsInv, OutputsAsAsked, Complete, Rows
    <2> QED
      BY <1>1, <2>1, <2>3 DEF Complete
  <1>9. ASSUME NEW s \in Requests, NEW d \in Channels \ tangled'
        PROVE  /\ req'[s].chan = d /\ req'[s].pc = "outputs" /\ d \in Rows' =>
                    req'[s].outs \subseteq asked'[d]
                    /\ \A p \in OutputType :
                          outputs'[d][p] = IF p \in asked'[d] \ req'[s].outs THEN 1 ELSE 0
               /\ EditOf(req'[s], d) /\ d \notin Rows' => outputs'[d] = NoOutputs /\ asked'[d] = {}
    <2>1. CASE s = r
      BY <1>1, <1>4, <1>5, <2>1 DEF n, NoOutputs
    <2>2. CASE s # r /\ d = c
      <3>1. req'[s].chan # c
        BY <1>3, <1>9, <2>2 DEF OthersKept, RowsInv, OutputsInv, Crowded
      <3> QED
        BY <2>2, <3>1 DEF EditOf
    <2>3. CASE s # r /\ d # c
      <3>1. d \in Channels \ tangled /\ outputs'[d] = outputs[d] /\ asked'[d] = asked[d] /\ Rows' = Rows
        BY <1>1, <1>3, <2>3
      <3>2. /\ req[s].chan = d /\ req[s].pc = "outputs" /\ d \in Rows => Partial(d, req[s].outs)
            /\ EditOf(req[s], d) /\ d \notin Rows => outputs[d] = NoOutputs /\ asked[d] = {}
        BY <3>1 DEF RowsInv, OutputsInv
      <3> QED
        BY <1>3, <2>3, <3>1, <3>2 DEF OthersKept, Partial, EditOf
    <2> QED
      BY <2>1, <2>2, <2>3
  <1>10. OutputsInv'
    BY <1>3, <1>8, <1>9 DEF OutputsInv, OutputsAsAsked, Complete, Partial, EditOf
  <1> QED
    BY <1>6, <1>7, <1>10

LEMMA RemoveKeepsRows ==
    ASSUME RowsInv, NEW r \in Requests, RemoveChannel(r)
    PROVE  (StatusInv /\ OutputsInv /\ LimitInv)'
  <1> DEFINE c == req[r].chan
  <1>0. RegistryTypeOK /\ req[r].pc = "remove"
    BY DEF RowsInv, RemoveChannel
  <1>1. /\ \A d \in Channels \ {c} : /\ target'[d] = target[d] /\ status'[d] = status[d]
                                     /\ outputs'[d] = outputs[d] /\ asked'[d] = asked[d]
                                     /\ written'[d] = written[d]
        /\ c \in Channels => target'[c] = None /\ outputs'[c] = NoOutputs /\ asked'[c] = {}
        /\ tangled' = (tangled \ {c}) \cup Crowded'
        /\ \A d \in Channels : d \in stale' <=> IF d = c THEN Editing(d) ELSE d \in stale
    BY <1>0 DEF RemoveChannel, RegistryTypeOK
  <1>2. req'[r] = IdleRequest /\ \A s \in Requests \ {r} : req'[s] = req[s]
    BY <1>0 DEF RemoveChannel, RegistryTypeOK
  <1>3. Rows' = Rows \ {c}
    BY <1>1 DEF Rows
  <1>4. ASSUME NEW s \in Requests, NEW d, EditOf(req'[s], d)
        PROVE  s # r /\ EditOf(req[s], d) /\ req'[s] = req[s]
    BY <1>2, <1>4, IdleMoves
  <1>5. StatusInv'
    <2>1. StatusKept'
      BY <1>1, <1>3 DEF RowsInv, StatusInv, StatusKept, Rows
    <2>2. ASSUME NEW s \in Requests, NEW d \in Channels \ stale', EditOf(req'[s], d)
          PROVE  req'[s].status = written'[d]
      <3>1. EditOf(req[s], d) /\ req'[s] = req[s]
        BY <1>4, <2>2
      <3>2. Editing(d)
        BY <3>1 DEF EditOf, Editing
      <3>3. d # c /\ d \notin stale
        BY <1>1, <2>2, <3>2
      <3> QED
        BY <1>1, <2>2, <3>1, <3>3 DEF RowsInv, StatusInv
    <2> QED
      BY <2>1, <2>2 DEF StatusInv, EditOf
  <1>6. LimitInv'
    <2>1. Cardinality(Rows') \in Nat /\ Cardinality(Rows') <= Cardinality(Rows)
      BY <1>3, FewerRows
    <2>2. ASSUME NEW s \in Requests, Counted(req'[s])
          PROVE  Cardinality(Rows') < req'[s].max
      <3>1. s # r /\ req'[s] = req[s] /\ Cardinality(Rows) < req[s].max
        BY <1>2, <2>2, IdleMoves DEF RowsInv, LimitInv
      <3>2. req[s].max \in Limits \cup {0}
        <4>1. req[s] \in Request
          BY <1>0 DEF RegistryTypeOK
        <4> QED
          BY <4>1 DEF Request
      <3>3. req[s].max \in Nat
        BY <3>2, LimitsCount
      <3> QED
        BY <2>1, <3>1, <3>3, RowsCount
    <2> QED
      BY <1>2, <2>2, IdleMoves DEF RowsInv, LimitInv, Counted
  <1>7. ASSUME NEW d \in Rows' \ tangled', \A s \in Requests : req'[s].chan = d => req'[s].pc # "outputs"
        PROVE  Complete(d)'
    <2>1. d # c /\ d \in Rows \ tangled /\ d \in Channels
      BY <1>1, <1>3, <1>7 DEF Rows
    <2>2. \A s \in Requests : req[s].chan = d => req[s].pc # "outputs"
      BY <1>0, <1>2, <1>7
    <2>3. Complete(d)
      BY <2>1, <2>2 DEF RowsInv, OutputsInv, OutputsAsAsked, Complete
    <2> QED
      BY <1>1, <2>1, <2>3 DEF Complete
  <1>8. ASSUME NEW s \in Requests, NEW d \in Channels \ tangled'
        PROVE  /\ req'[s].chan = d /\ req'[s].pc = "outputs" /\ d \in Rows' =>
                    req'[s].outs \subseteq asked'[d]
                    /\ \A p \in OutputType :
                          outputs'[d][p] = IF p \in asked'[d] \ req'[s].outs THEN 1 ELSE 0
               /\ EditOf(req'[s], d) /\ d \notin Rows' => outputs'[d] = NoOutputs /\ asked'[d] = {}
    <2>1. CASE s = r
      BY <1>2, <2>1, IdleMoves
    <2>2. CASE s # r /\ d = c
      BY <1>1, <1>3, <2>2
    <2>3. CASE s # r /\ d # c
      <3>1. d \in Channels \ tangled /\ outputs'[d] = outputs[d] /\ asked'[d] = asked[d]
            /\ (d \in Rows' <=> d \in Rows)
        BY <1>1, <1>3, <2>3
      <3>2. /\ req[s].chan = d /\ req[s].pc = "outputs" /\ d \in Rows => Partial(d, req[s].outs)
            /\ EditOf(req[s], d) /\ d \notin Rows => outputs[d] = NoOutputs /\ asked[d] = {}
        BY <3>1 DEF RowsInv, OutputsInv
      <3> QED
        BY <1>2, <2>3, <3>1, <3>2 DEF Partial
    <2> QED
      BY <2>1, <2>2, <2>3
  <1>9. OutputsInv'
    BY <1>1, <1>7, <1>8 DEF OutputsInv, OutputsAsAsked, Complete, Partial, EditOf
  <1> QED
    BY <1>5, <1>6, <1>9

LEMMA OthersKeepRows ==
    ASSUME RowsInv,
           \/ \E c \in Channels, s \in Statuses : StatusWritten(c, s)
           \/ LicenceChanges \/ ApiStarts \/ ApiCrashes \/ UNCHANGED vars
    PROVE  (StatusInv /\ OutputsInv /\ LimitInv)'
  <1> USE DEF tableVars, rowVars, histVars
  <1>0. RegistryTypeOK
    BY DEF RowsInv
  <1>1. ASSUME NEW c \in Channels, NEW s \in Statuses, StatusWritten(c, s)
        PROVE  (StatusInv /\ OutputsInv /\ LimitInv)'
    <2>1. /\ \A d \in Channels \ {c} : status'[d] = status[d] /\ written'[d] = written[d]
          /\ status'[c] = written'[c]
          /\ stale' = (IF Editing(c) THEN stale \cup {c} ELSE stale \ {c})
          /\ UNCHANGED <<target, outputs, req, tangled, asked>>
      BY <1>0, <1>1 DEF StatusWritten, RegistryTypeOK
    <2>2. Rows' = Rows
      BY <2>1 DEF Rows
    <2>3. StatusKept'
      BY <2>1, <2>2 DEF RowsInv, StatusInv, StatusKept, Rows
    <2>4. ASSUME NEW q \in Requests, NEW d \in Channels \ stale', EditOf(req'[q], d)
          PROVE  req'[q].status = written'[d]
      <3>1. Editing(d)
        BY <2>1, <2>4 DEF EditOf, Editing
      <3>2. d # c /\ d \notin stale
        BY <2>1, <2>4, <3>1
      <3> QED
        BY <2>1, <2>4, <3>2 DEF RowsInv, StatusInv
    <2>5. StatusInv'
      BY <2>3, <2>4 DEF StatusInv, EditOf
    <2> QED
      BY <2>1, <2>2, <2>5 DEF RowsInv, OutputsInv, OutputsAsAsked, LimitInv, Crowded, Partial
  <1>2. CASE UNCHANGED <<target, status, outputs, req, tangled, asked, written, stale>>
    <2>1. Rows' = Rows
      BY <1>2 DEF Rows
    <2> QED
      BY <1>2, <2>1 DEF RowsInv, StatusInv, StatusKept, OutputsInv, OutputsAsAsked, LimitInv, Crowded, Partial
  <1>3. CASE ApiStarts
    <2>1. CASE Rows = {} /\ SampleTargets # {}
      <3> PICK r \in Requests :
            Go(r, [IdleRequest EXCEPT
                      !.op = "seed", !.pc = "entry", !.wanted = {"udp"},
                      !.used = Targets \ SampleTargets,
                      !.todo = Cardinality(SampleTargets)])
        BY <1>3, <2>1 DEF ApiStarts
      <3> DEFINE n == [IdleRequest EXCEPT
                          !.op = "seed", !.pc = "entry", !.wanted = {"udp"},
                          !.used = Targets \ SampleTargets,
                          !.todo = Cardinality(SampleTargets)]
      <3>1. Go(r, n) /\ n.op = "seed" /\ n.pc = "entry"
        BY DEF IdleRequest
      <3>2. UNCHANGED <<target, status, outputs, asked, written, stale>>
        BY <1>3 DEF ApiStarts
      <3> HIDE DEF n
      <3>3. req[r].chan \notin Rows
        BY <2>1
      <3> QED
        BY <1>0, <3>1, <3>2, <3>3, GoOthers, MovesOn DEF EditOf, Counted
    <2>2. CASE ~(Rows = {} /\ SampleTargets # {})
      BY <1>2, <1>3, <2>2 DEF ApiStarts
    <2> QED
      BY <2>1, <2>2
  <1>4. CASE ApiCrashes
    <2>1. /\ \A s \in Requests : req'[s] = IdleRequest
          /\ UNCHANGED <<target, status, outputs, asked, written, stale>>
          /\ tangled' = tangled \cup {c \in Channels : \E r \in Requests : req[r].chan = c /\ req[r].pc = "outputs"}
      BY <1>4 DEF ApiCrashes
    <2>2. Rows' = Rows
      BY <2>1 DEF Rows
    <2>3. StatusInv' /\ LimitInv'
      BY <2>1, <2>2, IdleMoves DEF RowsInv, StatusInv, StatusKept, LimitInv
    <2>4. (Crowded \subseteq tangled)'
      BY <2>1, RegistryAssumption DEF Crowded, IdleRequest
    <2>5. OutputsAsAsked'
      <3> SUFFICES ASSUME NEW d \in Rows \ tangled' PROVE Complete(d)
        BY <2>1, <2>2 DEF OutputsAsAsked, Complete
      <3>1. \A s \in Requests : req[s].chan = d => req[s].pc # "outputs"
        BY <2>1 DEF Rows
      <3> QED
        BY <2>1, <3>1 DEF RowsInv, OutputsInv, OutputsAsAsked, Complete
    <2> QED
      BY <2>1, <2>3, <2>4, <2>5, IdleMoves DEF OutputsInv
  <1> QED
    BY <1>1, <1>2, <1>3, <1>4 DEF LicenceChanges, vars

LEMMA NextKeepsRows ==
    ASSUME RowsInv, [Next]_vars
    PROVE  RowsInv'
  <1>1. RegistryTypeOK' /\ TargetsInv'
    BY NextTypes, NextKeepsTargets DEF RowsInv
  <1>2. ASSUME NEW r \in Requests, RequestStep(r)
        PROVE  (StatusInv /\ OutputsInv /\ LimitInv)'
    BY <1>2, RequestKeepsRows, InsertsKeepRows, SaveOutputKeepsRows, SaveChannelKeepsRows,
       ClearKeepsRows, RemoveKeepsRows
    DEF RequestStep
  <1>3. (StatusInv /\ OutputsInv /\ LimitInv)'
    BY <1>2, OthersKeepRows DEF Next
  <1> QED
    BY <1>1, <1>3 DEF RowsInv

\* The inductive invariant of the status, the outputs and the limit: what an edit has
\* read, what a request has saved, and the room a create has counted.
THEOREM RowsInvHolds == Spec => []RowsInv
  <1>1. Init => RowsInv
    BY InitTypes, InitTargets, RowsStart DEF RowsInv
  <1>2. RowsInv /\ [Next]_vars => RowsInv'
    BY NextKeepsRows
  <1> QED
    BY <1>1, <1>2, PTL DEF Spec

\* An edit of a channel, which saves the whole row as it has read it, leaves the status
\* what the worker or an endpoint last wrote, but for what they wrote in between.
THEOREM EditKeepsStatus == Spec => []StatusKept
  <1>1. RowsInv => StatusKept
    BY DEF RowsInv, StatusInv
  <1> QED
    BY <1>1, RowsInvHolds, PTL

\* A channel has the outputs last asked for, each once, when no request is saving them:
\* saveOutputs one at a time, unless requests overlapped or the API died meanwhile.
THEOREM OutputsAreSaved == Spec => []OutputsAsAsked
  <1>1. RowsInv => OutputsAsAsked
    BY DEF RowsInv, OutputsInv
  <1> QED
    BY <1>1, RowsInvHolds, PTL

\* The insert of a create that has counted.
LEMMA StaysBelow ==
    ASSUME RowsInv, Next, NEW r \in Requests,
           req[r].op = "create", req[r].pc = "save", req'[r].pc = "outputs",
           req[r].alone, req[r].max > 0
    PROVE  Cardinality(Rows') <= req[r].max
  <1>0. RegistryTypeOK /\ Counted(req[r]) /\ Cardinality(Rows) < req[r].max
    BY DEF RowsInv, LimitInv, Counted
  <1>1. req[r].max \in Limits \cup {0}
    BY <1>0 DEF RegistryTypeOK, Request
  <1>2. req[r].max \in Nat
    BY <1>1, LimitsCount
  <1>3. CASE InsertChannel(r)
    <2>1. PICK c \in Channels \ Rows : Rows' = Rows \cup {c}
      BY <1>3, InsertsKeepRows
    <2>2. Cardinality(Rows') = Cardinality(Rows) + 1
      BY <2>1, RowsCount
    <2> QED
      BY <1>0, <1>2, <2>2, RowsCount
  <1>4. ASSUME NEW s \in Requests, RequestStep(s), s # r
        PROVE  req'[r].pc = "save"
    <2>1. \A n : Go(s, n) => req'[r] = req[r]
      BY <1>0, <1>4 DEF Go, RegistryTypeOK
    <2>2. \A n : GoInserting(s, n) => req'[r].pc = req[r].pc
      BY <1>0, <1>4 DEF GoInserting, RegistryTypeOK, Request
    <2>3. \A c, t, n : Insert(s, c, t, n) => req'[r].pc = req[r].pc
      BY <1>0, <1>4 DEF Insert, RegistryTypeOK, Request
    <2>4. RemoveChannel(s) => req'[r] = req[r]
      BY <1>0, <1>4 DEF RemoveChannel, RegistryTypeOK
    <2> QED
      BY <1>4, <2>1, <2>2, <2>3, <2>4
      DEF RequestStep, PostChannel, CountChannels, CheckTarget, InsertChannel, SaveOutput,
          PutChannel, SaveChannel, ClearOutputs, DeleteChannel, PostImport, ImportEntry,
          FinishImport, Finish
  <1>5. ASSUME RequestStep(r)
        PROVE  InsertChannel(r)
    BY <1>5 DEF RequestStep, PostChannel, CountChannels, CheckTarget, SaveOutput,
          PutChannel, SaveChannel, ClearOutputs, DeleteChannel, RemoveChannel, PostImport,
          ImportEntry, FinishImport, Arrives
  <1>6. CASE ApiStarts \/ ApiCrashes
    <2>1. req'[r].pc \in {"idle", "entry", "save"}
      <3>1. IdleRequest.pc = "idle"
        BY DEF IdleRequest
      <3>2. CASE ApiCrashes
        BY <3>1, <3>2 DEF ApiCrashes
      <3>3. CASE UNCHANGED req
        BY <3>3
      <3>4. ASSUME NEW s \in Requests,
                   Go(s, [IdleRequest EXCEPT
                            !.op = "seed", !.pc = "entry", !.wanted = {"udp"},
                            !.used = Targets \ SampleTargets,
                            !.todo = Cardinality(SampleTargets)])
            PROVE  req'[r].pc \in {"idle", "entry", "save"}
        BY <1>0, <3>4 DEF Go, RegistryTypeOK, IdleRequest
      <3> QED
        BY <1>6, <3>2, <3>3, <3>4 DEF ApiStarts
    <2> QED
      BY <2>1
  <1> QED
    BY <1>3, <1>4, <1>5, <1>6 DEF Next, StatusWritten, LicenceChanges

\* A create that no other insert ran into does not take the table over the limit that
\* assertChannelLimit has read, whatever is removed, edited or crashes meanwhile.
THEOREM CreateKeepsLimit == Spec => LimitKept
  <1>1. RowsInv /\ [Next]_vars =>
          [\A r \in Requests :
              /\ req[r].op = "create" /\ req[r].pc = "save" /\ req'[r].pc = "outputs"
              /\ req[r].alone /\ req[r].max > 0
              => Cardinality(Rows') <= req[r].max]_vars
    BY StaysBelow
  <1> QED
    BY <1>1, RowsInvHolds, PTL DEF Spec, LimitKept
=============================================================================
