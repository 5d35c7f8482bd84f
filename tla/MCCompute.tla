------------------------------- MODULE MCCompute -------------------------------
(***************************************************************************)
(* The dispatchers of a command processor, and a compute unit, for TLC.     *)
(* A behaviour is one unit's; the variables of the other are off.           *)
(*                                                                         *)
(* Two dispatchers share two compute units.  The first two launches are one *)
(* command to a unified GPU, each with the work-groups of one GPU; the      *)
(* third is a kernel with other needs.  The grids have partial work-groups, *)
(* and the compute units hold only some of the work-groups at a time.       *)
(***************************************************************************)
EXTENDS Dispatcher

CONSTANTS Active,          \* the units a behaviour may be of
          Programs,        \* the scenarios of the compute unit
          BarrierSize, NumFlush

VARIABLES unit, sc, wf, pipe, sched, smem, vmem, imem, ctl, done, lds, memory, result

C == INSTANCE ComputeUnit WITH Scenarios <- Programs, LineLen <- 4, BufSize <- 8, PipeCap <- 2,
        ReadBufSize <- 2, VMemLimit <- 4, WordsPerLine <- 2, PortCap <- 1


Needs(s, v, l) == [sgpr |-> s, vgpr |-> v, lds |-> l]

\* cmd: the launch command the kernel is part of.
TwoHalves ==
  <<[cmd |-> 1, grid |-> <<6, 4, 1>>, wgSize |-> <<4, 2, 1>>, part |-> <<0, 2>>,
     need |-> Needs(1, 2, 0), block |-> 1],
    [cmd |-> 1, grid |-> <<6, 4, 1>>, wgSize |-> <<4, 2, 1>>, part |-> <<1, 2>>,
     need |-> Needs(1, 2, 0), block |-> 1],
    [cmd |-> 2, grid |-> <<1, 2, 2>>, wgSize |-> <<2, 1, 2>>, part |-> <<0, 1>>,
     need |-> Needs(2, 1, 3), block |-> 2]>>

Units(wg) == [sgpr |-> unitsOccupy(wg.need.sgpr, sregGranularity),
              vgpr |-> unitsOccupy(wg.need.vgpr, vregGranularity),
              lds  |-> unitsOccupy(wg.need.lds, ldsGranularity)]

\* The wavefronts resident on a CU, and the work-groups.
Wavefronts(r) == UNION {{<<wg, i>> : i \in DOMAIN r.reservedWGs[wg]} : wg \in DOMAIN r.reservedWGs}

Within(u, o, n) == o <= u /\ u < o + n


-----------------------------------------------------------------------------
(* Programs of the compute unit *)

I(op) == [op |-> op]
WaitCnt(lgkm, vm) == [op |-> "waitcnt", lgkm |-> lgkm, vm |-> vm]
VMem(op, a, b, regs, exec) == [op |-> op, addrs |-> <<a, b>>, regs |-> regs, exec |-> exec]
SLoad(addr, words) == [op |-> "sload", addr |-> addr, words |-> words]

\* One wavefront loads, adds and stores; the other branches; both meet at a
\* barrier.  Two lanes of a load touch three lines.
Sharing ==
    [wg |-> <<1, 1>>, simd |-> <<0, 1>>,
     prog |-> << <<VMem("vload", 1, 3, 2, {1, 2}), WaitCnt(0, 0), I("valu"), I("barrier"), I("end")>>,
                 <<I("salu"), [op |-> "branch", until |-> 2, target |-> 1], I("barrier"), I("end")>> >>]
\* Scalar loads of two lines fill the read buffer; two work-groups end.
Loading ==
    [wg |-> <<1, 2>>, simd |-> <<0, 0>>,
     prog |-> << <<SLoad(1, 2), SLoad(4, 1), I("end")>>,
                 <<SLoad(3, 2), I("end")>> >>]
\* A store of two lanes to one line, one lane masked in the next.
Storing ==
    [wg |-> <<1, 2>>, simd |-> <<0, 0>>,
     prog |-> << <<I("valu"), VMem("vstore", 0, 1, 1, {1, 2}), VMem("vstore", 2, 6, 1, {2}), I("end")>>,
                 <<[op |-> "lds", value |-> 1], VMem("vload", 4, 5, 1, {}), I("nop"), I("end")>> >>]
\* Two work-groups of two wavefronts that pass two barriers each.
Meeting ==
    [wg |-> <<1, 1, 2, 2>>, simd |-> <<0, 1, 0, 1>>,
     prog |-> [w \in 1..4 |-> <<I("barrier"), I("barrier"), I("end")>>]]
JustMeeting == {Meeting}
AllPrograms == {Sharing, Loading, Storing}

-----------------------------------------------------------------------------
(* The two units *)

cuVars == <<sc, wf, pipe, sched, smem, vmem, imem, ctl, done, lds, memory, result>>
both   == <<unit, vars, cuVars>>

Off(x) == x = "off"
CUOff == /\ Off(sc) /\ Off(wf) /\ Off(pipe) /\ Off(sched) /\ Off(smem) /\ Off(vmem) /\ Off(imem)
         /\ Off(ctl) /\ Off(done) /\ Off(lds) /\ Off(memory) /\ Off(result)
DispatcherOff == /\ Off(alg) /\ Off(cus) /\ Off(disps) /\ Off(launched) /\ Off(toCU)
                 /\ Off(running) /\ Off(ToCUs) /\ Off(toDriver) /\ Off(answered) /\ Off(ran)

InitUnit == /\ unit \in Active
            /\ \/ unit = "dispatchers" /\ Init /\ CUOff
               \/ unit = "CU" /\ C!Init /\ DispatcherOff

NextOfUnit == /\ UNCHANGED unit
              /\ \/ unit = "dispatchers" /\ Next /\ UNCHANGED cuVars
                 \/ unit = "CU" /\ C!Next /\ UNCHANGED vars

UnitCanWork == CASE unit = "dispatchers" -> CanWork
                 [] unit = "CU"          -> ENABLED <<C!Step>>_cuVars

\* Weak fairness of the work of the unit: launches and flushes are bounded, so that
\* infinitely many steps have infinitely many of that work among them.
SpecOfUnit == InitUnit /\ [][NextOfUnit]_both /\ ([]<>~UnitCanWork \/ []<><<TRUE>>_both)

-----------------------------------------------------------------------------
\* The free slots, registers and ports never leave their bounds, and no mark of
\* an attempted reservation survives it.
DispatchersTypeOK ==
  /\ \A c \in DOMAIN cus :
       /\ \A s \in SIMDs : cus[c].wfPoolFreeCount[s] \in 0 .. wfPoolSize
       /\ \A i \in DOMAIN cus[c].sreg : cus[c].sreg[i] \in {"free", "reserved"}
       /\ \A i \in DOMAIN cus[c].lds : cus[c].lds[i] \in {"free", "reserved"}
       /\ \A s \in SIMDs : \A i \in DOMAIN cus[c].vreg[s] :
            cus[c].vreg[s][i] \in {"free", "reserved"}
       /\ cus[c].nextSIMD \in SIMDs
  /\ Len(toCU) <= PortCap /\ Len(ToCUs) <= PortCap /\ Len(toDriver) <= PortCap
  /\ \A i \in DOMAIN disps : disps[i].placed <= Max({NumWGs[l] : l \in Ls})

\* A register, a slot or a byte of local memory is reserved exactly when one
\* wavefront (for the LDS, one work-group) of a resident work-group holds it
\* (ReserveResourceForWG, FreeResourcesForWG): nothing is shared, nothing leaks.
ReservedOnce ==
    \A c \in DOMAIN cus : LET r == cus[c] IN LET wfs == Wavefronts(r) IN
      /\ \A u \in DOMAIN r.sreg :
           Cardinality({w \in wfs : Within(u, r.reservedWGs[w[1]][w[2]].sgpr, Units(w[1]).sgpr)})
             = IF r.sreg[u] = "free" THEN 0 ELSE 1
      /\ \A u \in DOMAIN r.lds :
           Cardinality({w \in wfs : w[2] = 1 /\ Within(u, r.reservedWGs[w[1]][1].lds, Units(w[1]).lds)})
             = IF r.lds[u] = "free" THEN 0 ELSE 1
      /\ \A s \in SIMDs : LET on == {w \in wfs : r.reservedWGs[w[1]][w[2]].simd = s} IN
           /\ \A u \in DOMAIN r.vreg[s] :
                Cardinality({w \in on : Within(u, r.reservedWGs[w[1]][w[2]].vgpr, Units(w[1]).vgpr)})
                  = IF r.vreg[s][u] = "free" THEN 0 ELSE 1
           /\ r.wfPoolFreeCount[s] = wfPoolSize - Cardinality(on)

\* A work-group keeps its reservation from before it is sent until its
\* completion has been read (FreeResources of processMessagesFromCU).
RunsOnReserved ==
    \A loc \in running \union ToSet(toCU) \union ToSet(ToCUs) :
      loc.wg \in DOMAIN cus[loc.cu].reservedWGs

\* When a kernel is answered (completeKernel), every work-group of its part of
\* the grid was executed once and none of its work is left in a CU or a port.
KernelIsDone ==
    \A l \in answered \union ToSet(toDriver) :
      /\ \A w \in AllWGs(Launches[l]) : ran[l][w] = IF Filter(Launches[l], w) THEN 1 ELSE 0
      /\ \A loc \in running \union ToSet(toCU) \union ToSet(ToCUs) : loc.wg.l # l

\* The lanes that execute: those of the initial mask in the emulator's CU, all of
\* them in the timing CU (setWfInfo: EXEC = 0xffffffffffffffff).
Lanes(f) == IF Timing THEN 0 .. wavefrontSize - 1 ELSE f.mask

Grid(k) == {<<x, y, z>> : x \in 0 .. k.grid[1] - 1, y \in 0 .. k.grid[2] - 1,
                          z \in 0 .. k.grid[3] - 1}

\* The lanes that execute a work-group, each with the work-item it finds in its
\* registers.
Work(k, w) == LET wfs == formWavefronts(k, w)
              IN  UNION {{<<w, i, n, LaneItem(k, w, wfs[i], n)>> : n \in Lanes(wfs[i])}
                           : i \in DOMAIN wfs}

WorkItems == [l \in Ls |-> [w \in AllWGs(Launches[l]) |-> Work(Launches[l], w)]]

\* Once the launches of a command are answered, exactly one lane ran each
\* work-item of the grid, and no lane ran anything else (NextWG, the filter of a
\* unified launch, formWavefronts, initRegisters).
EveryItemOnce ==
    \A cmd \in {Launches[l].cmd : l \in Ls} :
      LET mine == {l \in Ls : Launches[l].cmd = cmd}
          work == UNION {UNION {WorkItems[l][w] : w \in {v \in AllWGs(Launches[l]) : ran[l][v] > 0}}
                           : l \in mine}
          grid == Grid(Launches[CHOOSE l \in mine : TRUE])
      IN  mine \subseteq answered =>
            /\ {t[4] : t \in work} = grid
            /\ Cardinality(work) = Cardinality(grid)

\* The resources of the compute units are what the resident work-groups hold, no more and no
\* less: none is shared, none leaks, none is marked by an attempt that failed, and a
\* work-group keeps its own from before it is sent until its completion has been read.
ResourcesMatch == unit = "dispatchers" => DispatchersTypeOK /\ ReservedOnce /\ RunsOnReserved

\* An answer means that the work is done.  When a kernel is answered its work-groups were
\* executed once each, none is left in a CU or a port, and one lane ran each work-item of the
\* grid; the completion message of a work-group means that its wavefronts have ended with none
\* of their accesses under way (evalSEndPgm, handleWfCompletionEvent).
AnsweredIsDone == CASE unit = "dispatchers" -> KernelIsDone /\ EveryItemOnce
                    [] unit = "CU"          -> C!CompletedIsDone

\* A wavefront ends with the registers, and leaves the memory, that its program gives when
\* every instruction takes effect once and in order, whatever was flushed, resent or answered
\* late (coalescer, shadow buffers, s_waitcnt): the counters s_waitcnt and s_endpgm wait for
\* are the accesses in flight or waiting to be resent, and no wavefront of a work-group is past
\* a barrier that another has not passed (evalSBarrier, areAllWfInWGAtBarrier, passBarrier).
ResultOK == unit = "CU" => C!TypeOK /\ C!ResultOK /\ C!CountersMatch /\ C!BarrierSeparates

AllSettled == IF unit = "dispatchers" THEN answered = Ls ELSE done.wgs = C!WGs

\* Every launched kernel is answered, whatever the algorithm: a work-group that fits on an
\* empty CU is placed in the end (Next, Tick of the dispatcher).  Every work-group mapped to a
\* compute unit completes, whatever is flushed.
Answered == []<>AllSettled
=============================================================================
