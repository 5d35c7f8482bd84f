----------------------------- MODULE Dispatcher -----------------------------
(* The dispatchers of a command processor (mgpusim/timing/cp/internal/       *)
(* dispatching), each running one kernel at a time: they cut the grid into    *)
(* work-groups, find a compute unit with the resources for each, send it       *)
(* there, and answer the driver once all have completed.  They share the       *)
(* compute units' resources and the two ports of the command processor.        *)
(*                                                                              *)
(* Launches[l] is the l-th kernel the driver launches.  The latencies of the     *)
(* dispatcher (latencyTable, constantKernelOverhead) are cut to Latency and      *)
(* Overhead cycles.  The compute units and the driver are the environment.       *)
EXTENDS Integers, Sequences, SequencesExt, FiniteSets, FiniteSetsExt

---------------------------------------------------------------------------
(* How a kernel's grid is cut into work-groups and wavefronts                *)
(* (mgpusim/kernels/gridbuilder.go), and which work-item each lane of a      *)
(* wavefront runs (initRegisters of the compute unit).                       *)
(*                                                                            *)
(* A kernel k has k.grid and k.wgSize, both <<x, y, z>>, and k.part =          *)
(* <<i, n>>: a launch on n GPUs as one unified GPU gives GPU i the work-groups  *)
(* whose flattened ID is i modulo n (<<0, 1>> is a launch without a filter).    *)

CONSTANT wavefrontSize         \* 64

NoWG == <<>>

\* countWG: the number of work-groups along dimension d.
NumWGOf(k, d) == ((k.grid[d] - 1) \div k.wgSize[d]) + 1

\* The WGFilter of a unified launch (driver.go).
Filter(k, wg) ==
  LET flattenedID == wg[3] * NumWGOf(k, 1) * NumWGOf(k, 2) + wg[2] * NumWGOf(k, 1) + wg[1]
  IN  flattenedID % k.part[2] = k.part[1]

AllWGs(k) == {<<x, y, z>> : x \in 0 .. NumWGOf(k, 1) - 1, y \in 0 .. NumWGOf(k, 2) - 1,
                            z \in 0 .. NumWGOf(k, 3) - 1}

NumWG(k) == Cardinality({wg \in AllWGs(k) : Filter(k, wg)})

Left(k, at, d) == k.grid[d] - at[d] * k.wgSize[d]

ToAllocate(k, at, d) == Min({Left(k, at, d), k.wgSize[d]})

\* The position after `at`: x first, then y, then z.
Step(k, at) ==
  IF Left(k, at, 1) - ToAllocate(k, at, 1) > 0 THEN <<at[1] + 1, at[2], at[3]>>
  ELSE IF Left(k, at, 2) - ToAllocate(k, at, 2) > 0 THEN <<0, at[2] + 1, at[3]>>
  ELSE <<0, 0, at[3] + 1>>

\* NextWG: the next work-group the filter lets through, and the position after it.
RECURSIVE NextWG(_, _)
NextWG(k, at) ==
  IF \E d \in 1 .. 3 : Left(k, at, d) <= 0 THEN [wg |-> NoWG, at |-> at]
  ELSE IF Filter(k, at) THEN [wg |-> at, at |-> Step(k, at)]
  ELSE NextWG(k, Step(k, at))

\* spawnWorkItems, in order: z outermost, x innermost.
spawnWorkItems(k, wg) ==
  LET n == [d \in 1 .. 3 |-> ToAllocate(k, wg, d)]
  IN  [i \in 1 .. n[1] * n[2] * n[3] |->
        <<(i - 1) % n[1], ((i - 1) \div n[1]) % n[2], (i - 1) \div (n[1] * n[2])>>]

FlattenedID(k, wi) == wi[1] + wi[2] * k.wgSize[1] + wi[3] * k.wgSize[1] * k.wgSize[2]

\* formWavefronts: a work-item whose ID is a multiple of the wavefront size
\* opens a wavefront; first is FirstWiFlatID and mask the InitExecMask.
formWavefronts(k, wg) ==
  FoldLeft(LAMBDA wfs, wi :
             LET id   == FlattenedID(k, wi)
                 open == IF id % wavefrontSize = 0
                         THEN Append(wfs, [first |-> id, mask |-> {}]) ELSE wfs
             IN  [open EXCEPT ![Len(open)].mask = @ \union {id % wavefrontSize}],
           << >>, spawnWorkItems(k, wg))

\* initRegisters: the grid coordinates that a lane of wavefront wf finds in its
\* registers.
LaneItem(k, wg, wf, lane) ==
  LET i == wf.first + lane
      p == k.wgSize[1] * k.wgSize[2]
  IN  <<wg[1] * k.wgSize[1] + ((i % p) % k.wgSize[1]),
        wg[2] * k.wgSize[2] + ((i % p) \div k.wgSize[1]),
        wg[3] * k.wgSize[3] + (i \div p)>>

---------------------------------------------------------------------------
(* What a compute unit can hold (mgpusim/timing/cp/internal/resource): the   *)
(* scalar registers and the local memory of the unit, the vector registers   *)
(* and the wavefront slots of each of its SIMD units.  A dispatcher reserves  *)
(* all a work-group needs, or nothing, and gives it back when the work-group  *)
(* completes.                                                                 *)
(*                                                                            *)
(* The CU's record r holds a mask per resource (sreg, lds, vreg[s]) and the    *)
(* free wavefront slots of each SIMD unit (wfPoolFreeCount).  A work-group is   *)
(* wg, a record with need.sgpr, need.vgpr and need.lds (the code object's       *)
(* counts) and wfs, its number of wavefronts.  These are the limited masks of   *)
(* the timing CUs; the emulator's CUs have unlimited ones that never refuse.    *)

CONSTANTS numSIMD,         \* SIMD units of a CU (4)
          wfPoolSize,      \* wavefronts a SIMD unit can hold (10)
          sregUnits,       \* sizes of the masks, in allocation units
          vregUnits,
          ldsUnits,
          sregGranularity, \* registers (bytes, for the LDS) of one unit
          vregGranularity,
          ldsGranularity

SIMDs == 0 .. numSIMD - 1

\* F of a value that is computed once, and the same for each step of a fold.
Apply(F(_), v) == CHOOSE r \in {F(x) : x \in {v}} : TRUE
FoldEach(op(_, _), base, seq) ==
  LET after[i \in 0 .. Len(seq)] ==
        IF i = 0 THEN base ELSE Apply(LAMBDA s : op(s, seq[i]), after[i - 1])
  IN  after[Len(seq)]

newResourceMask(size) == [i \in 0 .. size - 1 |-> "free"]

\* RegisterCU: the resources of one CU.
NewCU == [sreg |-> newResourceMask(sregUnits),
          lds  |-> newResourceMask(ldsUnits),
          vreg |-> [s \in SIMDs |-> newResourceMask(vregUnits)],
          wfPoolFreeCount |-> [s \in SIMDs |-> wfPoolSize],
          nextSIMD |-> 0,
          reservedWGs |-> << >>]        \* work-group -> its locations

unitsOccupy(amount, granularity) ==
  IF amount % granularity = 0 THEN amount \div granularity
  ELSE (amount \div granularity) + 1

None == -1

\* The first run of `length` free units, None when there is none.
nextRegion(mask, length) ==
  LET starts == {o \in DOMAIN mask : \A i \in o .. o + length - 1 :
                    i \in DOMAIN mask /\ mask[i] = "free"}
  IN  IF length = 0 THEN 0
      ELSE IF starts = {} THEN None
      ELSE CHOOSE o \in starts : \A p \in starts : o <= p

setStatus(mask, offset, length, status) ==
  [i \in DOMAIN mask |-> IF offset <= i /\ i < offset + length THEN status ELSE mask[i]]

convertStatus(mask, from, to) ==
  [i \in DOMAIN mask |-> IF mask[i] = from THEN to ELSE mask[i]]

\* A region of its own for each of n wavefronts: [mask, at, ok].
RegionForEach(mask, n, required) ==
  FoldEach(LAMBDA s, i :
             LET o == nextRegion(s.mask, required)
             IN  IF ~s.ok \/ o = None THEN [s EXCEPT !.ok = FALSE]
                 ELSE [mask |-> setStatus(s.mask, o, required, "toReserve"),
                       at |-> Append(s.at, o), ok |-> TRUE],
           [mask |-> mask, at |-> << >>, ok |-> TRUE], [i \in 1 .. n |-> i])

withinSGPRLimitation(r, wg) ==
  RegionForEach(r.sreg, wg.wfs, unitsOccupy(wg.need.sgpr, sregGranularity))

\* One region that the wavefronts of the work-group share.
withinLDSLimitation(r, wg) ==
  RegionForEach(r.lds, 1, unitsOccupy(wg.need.lds, ldsGranularity))

\* A slot of SIMD unit s is left, counting those this work-group already took.
HasSlot(r, used, s) == r.wfPoolFreeCount[s] - used[s] > 0

\* matchWfWithSIMDs for one wavefront: the first SIMD unit, from nextSIMD on,
\* with the registers and a slot.  nextSIMD ends one past the unit taken, and
\* back where it was when every unit has been tried in vain.
MatchOne(r, s, required) ==
  LET order == [i \in 1 .. numSIMD |-> (s.next + i - 1) % numSIMD]
      fits  == {i \in 1 .. numSIMD : /\ nextRegion(s.vreg[order[i]], required) # None
                                     /\ HasSlot(r, s.used, order[i])}
      simd  == order[CHOOSE i \in fits : \A j \in fits : i <= j]
      o     == nextRegion(s.vreg[simd], required)
  IN  IF fits = {} THEN [s EXCEPT !.ok = FALSE]
      ELSE [vreg |-> [s.vreg EXCEPT ![simd] = setStatus(@, o, required, "toReserve")],
            used |-> [s.used EXCEPT ![simd] = @ + 1],
            next |-> (simd + 1) % numSIMD,
            at   |-> Append(s.at, <<simd, o>>), ok |-> TRUE]

matchWfWithSIMDs(r, wg) ==
  FoldEach(LAMBDA s, i : IF s.ok THEN MatchOne(r, s, unitsOccupy(wg.need.vgpr, vregGranularity))
                         ELSE s,
           [vreg |-> r.vreg, used |-> [s \in SIMDs |-> 0], next |-> r.nextSIMD,
            at |-> << >>, ok |-> TRUE],
           [i \in 1 .. wg.wfs |-> i])

clearTempReservation_Kept(r) == r

clearTempReservation(r) ==
  [r EXCEPT !.sreg = convertStatus(@, "toReserve", "free"),
            !.lds  = convertStatus(@, "toReserve", "free"),
            !.vreg = [s \in SIMDs |-> convertStatus(@[s], "toReserve", "free")]]

reserveResources(r, wg, locations) ==
  [r EXCEPT !.wfPoolFreeCount =
              [s \in SIMDs |-> @[s] - Cardinality({i \in DOMAIN locations : locations[i].simd = s})],
            !.sreg = convertStatus(@, "toReserve", "reserved"),
            !.lds  = convertStatus(@, "toReserve", "reserved"),
            !.vreg = [s \in SIMDs |-> convertStatus(@[s], "toReserve", "reserved")],
            !.reservedWGs = [w \in DOMAIN @ \union {wg} |->
                               IF w = wg THEN locations ELSE @[w]]]

\* ReserveResourceForWG: [cu, ok].  The three tests run in order and each marks
\* what it would take; a refusal takes the marks back, but not nextSIMD.
Reserve(r, wg, s, l, v) ==
  LET marked ==
        [r EXCEPT !.sreg = s.mask,
                  !.lds  = IF s.ok THEN l.mask ELSE @,
                  !.vreg = IF s.ok /\ l.ok THEN v.vreg ELSE @,
                  !.nextSIMD = IF s.ok /\ l.ok THEN v.next ELSE @]
      locations == [i \in 1 .. wg.wfs |-> [simd |-> v.at[i][1], vgpr |-> v.at[i][2],
                                           sgpr |-> s.at[i], lds |-> l.at[1]]]
  IN  IF s.ok /\ l.ok /\ v.ok
      THEN [cu |-> reserveResources(marked, wg, locations), ok |-> TRUE]
      ELSE [cu |-> clearTempReservation(marked), ok |-> FALSE]

ReserveResourceForWG(r, wg) ==
  Apply(LAMBDA t : Reserve(r, wg, t[1], t[2], t[3]),
        <<withinSGPRLimitation(r, wg), withinLDSLimitation(r, wg), matchWfWithSIMDs(r, wg)>>)

FreeResourcesForWG(r, wg) ==
  LET locations == r.reservedWGs[wg]
      Freed(mask, offs, length) ==
        [i \in DOMAIN mask |->
           IF \E o \in offs : o <= i /\ i < o + length THEN "free" ELSE mask[i]]
      used == {locations[i] : i \in DOMAIN locations}
  IN  [r EXCEPT
        !.wfPoolFreeCount =
          [s \in SIMDs |-> @[s] + Cardinality({i \in DOMAIN locations : locations[i].simd = s})],
        !.lds  = Freed(@, {x.lds : x \in used}, unitsOccupy(wg.need.lds, ldsGranularity)),
        !.sreg = Freed(@, {x.sgpr : x \in used}, unitsOccupy(wg.need.sgpr, sregGranularity)),
        !.vreg = [s \in SIMDs |->
                    Freed(@[s], {x.vgpr : x \in {y \in used : y.simd = s}},
                          unitsOccupy(wg.need.vgpr, vregGranularity))],
        !.reservedWGs = [w \in DOMAIN @ \ {wg} |-> @[w]]]

---------------------------------------------------------------------------
(* The dispatchers *)

CONSTANTS Launches,        \* sequence of kernels
          numDispatchers,
          NumCU,
          numChiplets,     \* 4 in the code
          Algs,            \* scheduling algorithms to check
          Timing,          \* the CUs are timing models, not emulators
          Latency, Overhead,
          PortCap          \* the command processor's ends of its connections

VARIABLES alg,       \* the scheduling algorithm of all dispatchers
          cus,       \* CUResourcePool: the resources of each CU
          disps,     \* the dispatchers
          launched,  \* how many launches the CP has accepted
          toCU,      \* MapWGReqs on the way to the CUs
          running,   \* work-groups the CUs execute
          ToCUs,     \* the CP's port: WGCompletionMsgs (1 message)
          toDriver,  \* answered launches on the way to the driver
          answered,  \* launches the driver knows to be complete
          ran        \* for each launch, how often each work-group was executed

vars == <<alg, cus, disps, launched, toCU, running, ToCUs, toDriver, answered, ran>>

Ls == DOMAIN Launches
Chiplets == 0 .. numChiplets - 1
NoCU == -1
NoLoc == [cu |-> NoCU]

\* The work-groups of each launch with the number of their wavefronts, and how
\* many of them pass the filter.
WGTable == [l \in Ls |-> [id \in AllWGs(Launches[l]) |->
              [l |-> l, id |-> id, need |-> Launches[l].need,
               wfs |-> Len(formWavefronts(Launches[l], id))]]]
WG(l, id) == WGTable[l][id]
NumWGs == [l \in Ls |-> NumWG(Launches[l])]

\* A dispatcher with its algorithm's state: the grid position, the work-group to
\* place (wg), the next CU (per chiplet), the work-groups placed so far, and for
\* the chiplet-aware algorithms the work-groups of each chiplet.
NewDispatcher ==
  [dispatching |-> 0, at |-> <<0, 0, 0>>, wg |-> NoWG, nextCU |-> [c \in Chiplets |-> 0],
   nextChiplet |-> 0, placed |-> 0, lists |-> [c \in Chiplets |-> << >>],
   currWG |-> NoLoc, cycleLeft |-> 0, numDispatchedWGs |-> 0, numCompletedWGs |-> 0,
   inflightWGs |-> {}]

Chipletwise == alg \in {"chiplet-aware", "lasp-Xdiv", "lasp-Ydiv", "lasp-Xblk", "lasp-Yblk"}

---------------------------------------------------------------------------
(* The scheduling algorithms *)

\* Chiplet of a work-group: blocks along the last dimension of the grid.
ChipletAware(k, wg) ==
  LET d == IF k.grid[3] > 1 THEN 3 ELSE IF k.grid[2] > 1 THEN 2 ELSE 1
      divisor == k.grid[d] \div (k.wgSize[d] * numChiplets)
      x == IF divisor = 0 THEN 0 ELSE wg[d] \div divisor
  IN  IF x >= numChiplets THEN 0 ELSE x

\* Chiplet of a work-group for the partitions of the LASP algorithm; k.block is
\* the number in "Xblk.<n>".  Ydiv is defined only when every chiplet gets the
\* same number of rows (the code divides by zero, or runs out of the list).
Lasp(k, wg) ==
  CASE alg = "lasp-Xdiv" -> wg[1] \div ((NumWGOf(k, 1) + numChiplets - 1) \div numChiplets)
    [] alg = "lasp-Ydiv" -> wg[2] \div (NumWGOf(k, 2) \div numChiplets)
    [] alg = "lasp-Xblk" -> (wg[1] \div k.block) % numChiplets
    [] alg = "lasp-Yblk" -> (wg[2] \div k.block) % numChiplets

ChipletOf(k, wg) == IF alg = "chiplet-aware" THEN ChipletAware(k, wg) ELSE Lasp(k, wg)

RECURSIVE AllNext(_, _)
AllNext(k, at) == LET n == NextWG(k, at)
                  IN  IF n.wg = NoWG THEN << >> ELSE <<n.wg>> \o AllNext(k, n.at)

\* StartNewKernel.  The chiplet-aware algorithms list the whole grid at once.
StartNewKernel(d, l) ==
  LET k == Launches[l]
      all == AllNext(k, <<0, 0, 0>>)
  IN  IF Chipletwise
      THEN [d EXCEPT !.placed = 0, !.nextCU = [c \in Chiplets |-> 0],
                     !.lists = [c \in Chiplets |->
                                  SelectSeq(all, LAMBDA wg : ChipletOf(k, wg) = c)]]
      ELSE [d EXCEPT !.placed = 0, !.at = <<0, 0, 0>>]

HasNext(d) == d.placed < NumWGs[d.dispatching]

\* Tries the CUs of `order` until one takes wg: [cus, cu, tried].  A CU that
\* refuses may still have moved its nextSIMD.
TryCUs(pool, order, wg) ==
  FoldEach(LAMBDA s, c :
             IF s.cu # NoCU THEN s
             ELSE LET r == ReserveResourceForWG(s.cus[c], wg)
                  IN  [cus |-> [s.cus EXCEPT ![c] = r.cu],
                       cu |-> IF r.ok THEN c ELSE NoCU, tried |-> s.tried + 1],
           [cus |-> pool, cu |-> NoCU, tried |-> 0], order)

perChiplet == NumCU \div numChiplets

ChipletOrder(d, c, next) == [i \in 1 .. perChiplet |-> c * perChiplet + ((next + i - 1) % perChiplet)]

\* greedy: a refusal moves nextCU, and the loop adds its own index to it.
GreedyOrder(next) ==
  LET visit[i \in 1 .. NumCU] == IF i = 1 THEN next % NumCU
                                 ELSE (visit[i - 1] + 1 + (i - 1)) % NumCU
  IN  visit

FlatOrder(d) ==
  CASE alg = "round-robin" -> [i \in 1 .. NumCU |-> (d.nextCU[0] + i - 1) % NumCU]
    [] alg = "greedy" -> GreedyOrder(d.nextCU[0])
    [] OTHER -> FlattenSeq([c \in 1 .. numChiplets |-> ChipletOrder(d, c - 1, d.nextCU[0])])

\* nextCU after Next of an algorithm without chiplet lists.
FlatNextCU(d, order, t) ==
  CASE alg = "round-robin" -> IF t.cu = NoCU THEN d.nextCU[0] ELSE (t.cu + 1) % NumCU
    [] alg = "greedy" -> LET refused == IF t.cu = NoCU THEN t.tried ELSE t.tried - 1
                         IN  IF refused = 0 THEN d.nextCU[0] ELSE (order[refused] + 1) % NumCU
    [] OTHER -> IF t.cu = NoCU THEN d.nextCU[0] ELSE (t.cu + 1) % perChiplet

\* Next of round-robin, greedy and old-chiplet-aware: [d, cus].
NextFlat(d, pool) ==
  LET n     == IF d.wg = NoWG THEN NextWG(Launches[d.dispatching], d.at)
               ELSE [wg |-> d.wg, at |-> d.at]
      order == FlatOrder(d)
      t     == TryCUs(pool, order, WG(d.dispatching, n.wg))
      e     == [d EXCEPT !.at = n.at, !.nextCU[0] = FlatNextCU(d, order, t)]
  IN  [cus |-> t.cus,
       d |-> IF t.cu = NoCU THEN [e EXCEPT !.wg = n.wg]
             ELSE [e EXCEPT !.wg = NoWG, !.placed = @ + 1,
                            !.currWG = [cu |-> t.cu, wg |-> WG(d.dispatching, n.wg)]]]

\* Next of chiplet-aware and LASP: the head of each chiplet's list, starting from
\* the chiplet after the last one served: [d, cus].
NextChipletwise(d, pool) ==
  FoldEach(LAMBDA s, i :
             LET c == (d.nextChiplet + i) % numChiplets
                 w == WG(d.dispatching, Head(s.d.lists[c]))
                 t == TryCUs(s.cus, ChipletOrder(d, c, d.nextCU[c]), w)
             IN  IF s.d.currWG # NoLoc \/ s.d.lists[c] = << >> THEN s
                 ELSE IF t.cu = NoCU THEN [s EXCEPT !.cus = t.cus]
                 ELSE [cus |-> t.cus,
                       d |-> [s.d EXCEPT !.nextCU[c] = (t.cu + 1) % perChiplet,
                                         !.nextChiplet = (c + 1) % numChiplets,
                                         !.lists[c] = Tail(@), !.placed = @ + 1,
                                         !.currWG = [cu |-> t.cu, wg |-> w]]],
           [cus |-> pool, d |-> d], [i \in 1 .. numChiplets |-> i - 1])

AlgNext(d, pool) == IF Chipletwise THEN NextChipletwise(d, pool) ELSE NextFlat(d, pool)

---------------------------------------------------------------------------
(* The dispatcher *)

Init ==
  /\ alg \in Algs
  /\ cus = [c \in 0 .. NumCU - 1 |-> NewCU]
  /\ disps = [d \in 1 .. numDispatchers |-> NewDispatcher]
  /\ launched = 0 /\ toCU = << >> /\ running = {} /\ ToCUs = << >>
  /\ toDriver = << >> /\ answered = {}
  /\ ran = [l \in Ls |-> [w \in AllWGs(Launches[l]) |-> 0]]

\* processLaunchKernelReq: the first dispatcher that is free takes the kernel;
\* with none free the launch stays in the port.
processLaunchKernelReq ==
  /\ launched < Len(Launches)
  /\ \E d \in DOMAIN disps :
       /\ disps[d].dispatching = 0
       /\ \A e \in 1 .. d - 1 : disps[e].dispatching # 0
       /\ disps' = [disps EXCEPT ![d] =
                      [StartNewKernel(@, launched + 1) EXCEPT
                         !.dispatching = launched + 1,
                         !.numDispatchedWGs = 0, !.numCompletedWGs = 0]]
  /\ launched' = launched + 1
  /\ UNCHANGED <<alg, cus, toCU, running, ToCUs, toDriver, answered, ran>>

kernelCompleted(d) ==
  d.currWG = NoLoc /\ ~HasNext(d) /\ d.numCompletedWGs >= d.numDispatchedWGs

\* completeKernel, when the driver's port takes the answer.
completeKernel(i) ==
  /\ disps[i].cycleLeft = 0 /\ disps[i].dispatching # 0 /\ kernelCompleted(disps[i])
  /\ Len(toDriver) < PortCap
  /\ toDriver' = Append(toDriver, disps[i].dispatching)
  /\ disps' = [disps EXCEPT ![i].dispatching = 0]
  /\ UNCHANGED <<alg, cus, launched, toCU, running, ToCUs, answered, ran>>

\* The dispatcher after its MapWGReq was sent.
Sent(d) == [d EXCEPT !.currWG = NoLoc, !.numDispatchedWGs = @ + 1,
                     !.inflightWGs = @ \union {d.currWG}, !.cycleLeft = Latency]

\* dispatchNextWG: reserve resources for the next work-group, unless one is still
\* to be sent, and send it if the port takes it.
dispatchNextWG(i) ==
  LET d == disps[i]
      next == IF d.currWG = NoLoc THEN AlgNext(d, cus) ELSE [d |-> d, cus |-> cus]
  IN  /\ d.cycleLeft = 0 /\ d.dispatching # 0 /\ ~kernelCompleted(d)
      /\ d.currWG # NoLoc \/ HasNext(d)
      /\ \E n \in {next} :
           LET send == n.d.currWG # NoLoc /\ Len(toCU) < PortCap
           IN  /\ cus' = n.cus
               /\ disps' = [disps EXCEPT ![i] = IF send THEN Sent(n.d) ELSE n.d]
               /\ toCU' = IF send THEN Append(toCU, n.d.currWG) ELSE toCU
      /\ UNCHANGED <<alg, launched, running, ToCUs, toDriver, answered, ran>>

FreeResources_Kept(pool, loc) == pool

FreeResources(pool, loc) == [pool EXCEPT ![loc.cu] = FreeResourcesForWG(@, loc.wg)]

Cycles(d) == IF d.numCompletedWGs = NumWGs[d.dispatching] THEN Overhead ELSE d.cycleLeft

\* processMessagesFromCU: the message at the head of the shared port, when it is
\* about a work-group of this dispatcher.
processMessagesFromCU(i) ==
  /\ disps[i].cycleLeft = 0 /\ ToCUs # << >> /\ Head(ToCUs) \in disps[i].inflightWGs
  /\ cus' = FreeResources(cus, Head(ToCUs))
  /\ LET d == [disps[i] EXCEPT !.inflightWGs = @ \ {Head(ToCUs)}, !.numCompletedWGs = @ + 1]
     IN  disps' = [disps EXCEPT ![i] = [d EXCEPT !.cycleLeft = Cycles(d)]]
  /\ ToCUs' = Tail(ToCUs)
  /\ UNCHANGED <<alg, launched, toCU, running, toDriver, answered, ran>>

\* A cycle of the latency of a dispatch or of a kernel's end.
WaitCycle(i) ==
  /\ disps[i].cycleLeft > 0
  /\ disps' = [disps EXCEPT ![i].cycleLeft = @ - 1]
  /\ UNCHANGED <<alg, cus, launched, toCU, running, ToCUs, toDriver, answered, ran>>

---------------------------------------------------------------------------
(* The compute units and the driver *)

\* A CU takes the oldest MapWGReq and starts its wavefronts.
StartWG ==
  /\ toCU # << >>
  /\ toCU' = Tail(toCU)
  /\ running' = running \union {Head(toCU)}
  /\ ran' = [ran EXCEPT ![Head(toCU).wg.l][Head(toCU).wg.id] = @ + 1]
  /\ UNCHANGED <<alg, cus, disps, launched, ToCUs, toDriver, answered>>

\* All wavefronts of a work-group have ended, and the CU's WGCompletionMsg
\* reaches the command processor.
EndWG(w) ==
  /\ w \in running /\ Len(ToCUs) < PortCap
  /\ running' = running \ {w} /\ ToCUs' = Append(ToCUs, w)
  /\ UNCHANGED <<alg, cus, disps, launched, toCU, toDriver, answered, ran>>

\* The driver takes an answered launch.
Answer ==
  /\ toDriver # << >>
  /\ toDriver' = Tail(toDriver) /\ answered' = answered \union {Head(toDriver)}
  /\ UNCHANGED <<alg, cus, disps, launched, toCU, running, ToCUs, ran>>

Step1(i) == \/ completeKernel(i) \/ dispatchNextWG(i) \/ processMessagesFromCU(i)
            \/ WaitCycle(i)

Next == \/ processLaunchKernelReq \/ StartWG \/ Answer
        \/ \E i \in 1 .. numDispatchers : Step1(i)
        \/ \E w \in running : EndWG(w)

\* When a launch can be accepted, and when dispatchNextWG(i) would change anything:
\* ENABLED <<processLaunchKernelReq>>_vars and ENABLED <<dispatchNextWG(i)>>_vars.
Launchable == launched < Len(Launches) /\ \E d \in DOMAIN disps : disps[d].dispatching = 0

CanDispatch(i) ==
  LET d == disps[i]
  IN  /\ d.cycleLeft = 0 /\ d.dispatching # 0 /\ ~kernelCompleted(d)
      /\ IF d.currWG # NoLoc THEN Len(toCU) < PortCap
         ELSE HasNext(d) /\ \E n \in {AlgNext(d, cus)} : n # [d |-> d, cus |-> cus]

Rest == \/ StartWG \/ Answer \/ \E w \in running : EndWG(w)
        \/ \E i \in 1 .. numDispatchers :
              completeKernel(i) \/ processMessagesFromCU(i) \/ WaitCycle(i)
CanWork == \/ Launchable \/ \E i \in 1 .. numDispatchers : CanDispatch(i)
           \/ ENABLED <<Rest>>_vars

\* The command processor ticks while there is work; kernels end.  Every step is one of a
\* finite number, so this is fairness of each.
Fairness == []<>~CanWork \/ []<><<Next>>_vars

Spec == Init /\ [][Next]_vars /\ Fairness
=============================================================================
