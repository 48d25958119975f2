---------------------------- MODULE BootstrapProofs ----------------------------
(***************************************************************************)
(* Proofs about the two commands: what init announces is installed, and    *)
(* the two servers of run, whose slices of TLS options grow from one, do   *)
(* not write into each other's.                                            *)
(***************************************************************************)
EXTENDS Bootstrap, SequenceTheorems, TLAPS

-------------------------------------------------------------------------------
(* Slices and the arrays behind them                                       *)

Arrays == [cap : Nat, cells : Seq(TLSOptions)]
Memories == {mem \in Seq(Arrays) :
               \A i \in DOMAIN mem : Len(mem[i].cells) <= mem[i].cap}
Pointers == [array : Nat, len : Nat]

(* A slice points to cells that have been written.                         *)
PointsInto(slice, mem) ==
  \/ slice = Nil
  \/ slice.array \in DOMAIN mem /\ slice.len \in 0..Len(mem[slice.array].cells)

(* There is no room behind the slice, so append has to copy.               *)
Full(slice, mem) == slice.len = Capacity(mem, slice)

(* Arrays are numbered from 1, so the slice without one has none.          *)
LEMMA NilSlice ==
  ASSUME NEW mem \in Memories
  PROVE  /\ Nil \in Pointers /\ PointsInto(Nil, mem) /\ Full(Nil, mem)
         /\ Cells(mem, Nil) = <<>>
BY DEF Nil, Pointers, PointsInto, Full, Capacity, Cells

(* What a memory consists of.                                              *)
LEMMA ArrayOfMemory ==
  ASSUME NEW mem \in Memories
  PROVE  /\ mem \in Seq(Arrays) /\ Len(mem) \in Nat /\ DOMAIN mem = 1..Len(mem)
         /\ \A i \in DOMAIN mem : /\ mem[i] \in Arrays /\ i # 0
                                 /\ mem[i].cells \in Seq(TLSOptions)
                                 /\ Len(mem[i].cells) <= mem[i].cap
<1>1. /\ mem \in Seq(Arrays)
      /\ \A i \in DOMAIN mem : Len(mem[i].cells) <= mem[i].cap
  BY DEF Memories
<1>2. /\ Len(mem) \in Nat /\ DOMAIN mem = 1..Len(mem)
      /\ \A i \in DOMAIN mem : mem[i] \in Arrays
  BY <1>1
<1>3. \A i \in DOMAIN mem : mem[i].cells \in Seq(TLSOptions)
  BY <1>2 DEF Arrays
<1> QED BY <1>1, <1>2, <1>3

(* The cells of a slice are as many as it is long.                         *)
LEMMA CellsOfSlice ==
  ASSUME NEW mem \in Memories, NEW slice \in Pointers, PointsInto(slice, mem)
  PROVE  Cells(mem, slice) \in Seq(TLSOptions) /\ Len(Cells(mem, slice)) = slice.len
<1>1. CASE slice = Nil
  BY <1>1 DEF Nil, Cells
<1>2. CASE slice # Nil
  <2>1. slice.array \in DOMAIN mem /\ slice.len \in 0..Len(mem[slice.array].cells)
    BY <1>2 DEF PointsInto
  <2>2. mem[slice.array].cells \in Seq(TLSOptions) /\ slice.array # 0
    BY <2>1, ArrayOfMemory
  <2>3. Cells(mem, slice) = SubSeq(mem[slice.array].cells, 1, slice.len)
    BY <2>2 DEF Cells
  <2> QED BY <2>1, <2>2, <2>3, SubSeqProperties
<1> QED BY <1>1, <1>2

(* A new array leaves the slices of the others as they are.                *)
LEMMA NewArray ==
  ASSUME NEW mem \in Memories, NEW array \in Arrays,
         Len(array.cells) <= array.cap
  PROVE  /\ Append(mem, array) \in Memories
         /\ Len(Append(mem, array)) = Len(mem) + 1
         /\ Append(mem, array)[Len(mem) + 1] = array
         /\ \A slice \in Pointers : PointsInto(slice, mem) =>
              /\ PointsInto(slice, Append(mem, array))
              /\ Cells(Append(mem, array), slice) = Cells(mem, slice)
              /\ Capacity(Append(mem, array), slice) = Capacity(mem, slice)
<1> DEFINE new == Append(mem, array)
<1>1. /\ mem \in Seq(Arrays) /\ new \in Seq(Arrays) /\ Len(new) = Len(mem) + 1
      /\ \A i \in 1..Len(mem) : new[i] = mem[i]
      /\ new[Len(mem) + 1] = array
  BY AppendProperties, ArrayOfMemory
<1>2. DOMAIN mem = 1..Len(mem) /\ DOMAIN new = 1..(Len(mem) + 1)
  BY <1>1
<1>3. new \in Memories
  <2>1. \A i \in 1..Len(mem) : Len(new[i].cells) <= new[i].cap
    BY <1>1, <1>2, ArrayOfMemory
  <2>2. \A i \in DOMAIN new : i \in 1..Len(mem) \/ i = Len(mem) + 1
    BY <1>1, <1>2
  <2>3. \A i \in DOMAIN new : Len(new[i].cells) <= new[i].cap
    BY <1>1, <2>1, <2>2
  <2> QED BY <1>1, <2>3 DEF Memories
<1>4. ASSUME NEW slice \in Pointers, PointsInto(slice, mem)
      PROVE  /\ PointsInto(slice, new) /\ Cells(new, slice) = Cells(mem, slice)
             /\ Capacity(new, slice) = Capacity(mem, slice)
  <2>1. CASE slice = Nil
    BY <2>1 DEF Nil, PointsInto, Cells, Capacity
  <2>2. CASE slice # Nil
    <3>1. slice.array \in 1..Len(mem) /\ new[slice.array] = mem[slice.array]
      BY <1>1, <1>2, <1>4, <2>2 DEF PointsInto
    <3> QED BY <1>2, <1>4, <3>1 DEF PointsInto, Cells, Capacity
  <2> QED BY <2>1, <2>2
<1> HIDE DEF new
<1> QED BY <1>1, <1>3, <1>4 DEF new

(* append to a full slice makes a slice of its own, and nobody else's      *)
(* cells change.                                                           *)
LEMMA AppendCopies ==
  ASSUME NEW mem \in Memories, NEW slice \in Pointers, PointsInto(slice, mem),
         Full(slice, mem), NEW option \in TLSOptions
  PROVE  LET added == AppendTo(mem, slice, option)
         IN  /\ added.memory \in Memories /\ added.slice \in Pointers
             /\ PointsInto(added.slice, added.memory)
             /\ Len(added.memory) = Len(mem) + 1
             /\ added.slice.array = Len(mem) + 1
             /\ added.slice.len = slice.len + 1
             /\ Cells(added.memory, added.slice) = Append(Cells(mem, slice), option)
             /\ Capacity(added.memory, added.slice) = Grow(slice.len)
             /\ \A other \in Pointers : PointsInto(other, mem) =>
                  /\ PointsInto(other, added.memory)
                  /\ Cells(added.memory, other) = Cells(mem, other)
                  /\ Capacity(added.memory, other) = Capacity(mem, other)
<1> DEFINE added == AppendTo(mem, slice, option)
           cells == Append(Cells(mem, slice), option)
           array == [cap |-> Grow(slice.len), cells |-> cells]
<1>1. /\ Cells(mem, slice) \in Seq(TLSOptions)
      /\ Len(Cells(mem, slice)) = slice.len /\ slice.len \in Nat
  BY CellsOfSlice DEF Pointers
<1>2. cells \in Seq(TLSOptions) /\ Len(cells) = slice.len + 1
  BY <1>1, AppendProperties
<1>3. array \in Arrays /\ Len(array.cells) <= array.cap
  BY <1>1, <1>2 DEF Arrays, Grow
<1>4. /\ added.memory = Append(mem, array)
      /\ added.slice = [array |-> Len(mem) + 1, len |-> slice.len + 1]
  BY <1>1 DEF AppendTo, Full
<1>5. mem \in Seq(Arrays) /\ Len(mem) \in Nat
  BY ArrayOfMemory
<1>6. added.slice \in Pointers /\ added.slice.array # 0
  BY <1>1, <1>4, <1>5 DEF Pointers
<1>7. array.cells = cells /\ array.cap = Grow(slice.len)
  OBVIOUS
<1> HIDE DEF added, array, cells
<1>8. /\ added.memory \in Memories /\ Len(added.memory) = Len(mem) + 1
      /\ added.memory[added.slice.array] = array
      /\ \A other \in Pointers : PointsInto(other, mem) =>
           /\ PointsInto(other, added.memory)
           /\ Cells(added.memory, other) = Cells(mem, other)
           /\ Capacity(added.memory, other) = Capacity(mem, other)
  BY <1>3, <1>4, NewArray
<1>9. PointsInto(added.slice, added.memory)
  <2>1. added.slice.array \in DOMAIN added.memory
    BY <1>4, <1>5, <1>8, ArrayOfMemory
  <2>2. added.slice.len \in 0..Len(added.memory[added.slice.array].cells)
    BY <1>1, <1>2, <1>4, <1>7, <1>8
  <2> QED BY <2>1, <2>2 DEF PointsInto
<1>10. Cells(added.memory, added.slice) = cells
  <2>1. Cells(added.memory, added.slice) = SubSeq(cells, 1, Len(cells))
    BY <1>2, <1>4, <1>6, <1>7, <1>8 DEF Cells
  <2> QED BY <1>2, <2>1, SubSeqFull
<1>11. Capacity(added.memory, added.slice) = Grow(slice.len)
  BY <1>6, <1>7, <1>8 DEF Capacity
<1>12. added.slice.array = Len(mem) + 1 /\ added.slice.len = slice.len + 1
  BY <1>4
<1> QED BY <1>6, <1>8, <1>9, <1>10, <1>11, <1>12 DEF added, cells

-------------------------------------------------------------------------------
(* The inductive invariant                                                 *)

(* TypeOK without the slices, which the invariant says more about.         *)
CommandTypes ==
  /\ options \in Options
  /\ initPc \in InitCalls /\ runPc \in RunCalls
  /\ requests \in [{"init", "run"} -> {"absent", "pending", "granted"}]
  /\ crds \subseteq Kinds /\ registered \in BOOLEAN
  /\ runnables \subseteq ({"platform"} \cup Servers \cup Controllers)
  /\ started \subseteq Controllers
  /\ faults \in 0..MaxFaults

(* init comes to Register, and registers, after the last CRD; nobody       *)
(* removes one.                                                            *)
InstalledFirst ==
  registered \/ initPc \in {"Register", "Done"} => crds = Kinds

WatchersAdded == runPc = "Running" => options.certs \subseteq runnables

Built == runPc \notin {"Down", "TLS"}

Passed(server) ==
  runPc \in (IF server = "webhook" THEN {"MetricsServer"} ELSE {})
            \cup {"Manager", "Controllers", "Watchers", "Running"}

(* What a server's slice holds: what both have, then its own certificate.  *)
Common == IF options.http2 THEN <<>> ELSE <<"http/1.1">>
Contents(server) ==
  IF Passed(server) /\ server \in options.certs
  THEN Append(Common, server) ELSE Common

(* A server that has not appended yet has no room to append in place.      *)
SliceFits(server) ==
  /\ PointsInto(tlsOpts[server], memory)
  /\ Cells(memory, tlsOpts[server]) = Contents(server)
  /\ ~Passed(server) => Full(tlsOpts[server], memory)

(* Each of the three appends makes at most one array.                      *)
MostArrays == IF ~Built THEN 0 ELSE IF ~Passed("webhook") THEN 1
              ELSE IF ~Passed("metrics") THEN 2 ELSE 3

SlicesFit ==
  /\ memory \in Memories /\ tlsOpts \in [Servers -> Pointers]
  /\ Len(memory) <= MostArrays
  /\ IF Built THEN \A server \in Servers : SliceFits(server)
     ELSE memory = <<>> /\ tlsOpts = [server \in Servers |-> Nil]

BootstrapInv == CommandTypes /\ InstalledFirst /\ WatchersAdded /\ SlicesFit

(* An empty memory is a memory.                                            *)
LEMMA NoArrays ==
  /\ <<>> \in Memories
  /\ [server \in Servers |-> Nil] \in [Servers -> Pointers]
BY DEF Memories, Nil, Pointers

(* Common holds TLS options.                                               *)
LEMMA CommonOptions ==
  Common \in Seq(TLSOptions) /\ Len(Common) = IF options.http2 THEN 0 ELSE 1
<1>1. CASE options.http2
  BY <1>1 DEF Common
<1>2. CASE ~options.http2
  <2>1. "http/1.1" \in TLSOptions
    BY DEF TLSOptions
  <2>2. <<"http/1.1">> \in Seq(TLSOptions) /\ Len(<<"http/1.1">>) = 1
    BY <2>1
  <2> QED BY <1>2, <2>2 DEF Common
<1> QED BY <1>1, <1>2

(* The initial state satisfies it.                                         *)
LEMMA InitBootstrapInv == Init => BootstrapInv
<1> SUFFICES ASSUME Init PROVE BootstrapInv
  OBVIOUS
<1>1. CommandTypes
  <2>1. requests \in [{"init", "run"} -> {"absent", "pending", "granted"}]
    BY DEF Init
  <2>2. faults \in 0..MaxFaults
    BY FaultsAssumption DEF Init, FaultsAssumption
  <2> QED BY <2>1, <2>2 DEF Init, CommandTypes, InitCalls, RunCalls
<1>2. InstalledFirst /\ WatchersAdded
  BY DEF Init, InstalledFirst, WatchersAdded
<1>3. SlicesFit
  BY NoArrays DEF Init, SlicesFit, MostArrays, Built
<1> QED BY <1>1, <1>2, <1>3 DEF BootstrapInv

(* Every variable keeps its type.                                          *)
LEMMA CommandTypesStep == CommandTypes /\ [Next]_vars => CommandTypes'
<1> SUFFICES ASSUME CommandTypes, [Next]_vars PROVE CommandTypes'
  OBVIOUS
<1> USE FaultsAssumption DEF CommandTypes, FaultsAssumption, Fault, NoFault
<1>1. CASE (InitStep \/ InitExits) /\ UNCHANGED <<options, runVars>>
  <2> USE DEF runVars, InitCalls
  <2>1. CASE StartInit \/ Register
    BY <1>1, <2>1 DEF StartInit, Register
  <2>2. CASE InitAccess
    <3>1. requests' \in [{"init", "run"} -> {"absent", "pending", "granted"}]
      BY <2>2 DEF InitAccess, CreateRequest
    <3> QED BY <1>1, <2>2, <3>1 DEF InitAccess, CreateRequest
  <2>3. CASE InstallCRDs
    BY <1>1, <2>3 DEF InstallCRDs
  <2>4. CASE InitExits
    <3>1. faults' \in 0..MaxFaults
      BY <2>4 DEF InitExits
    <3> QED BY <1>1, <2>4, <3>1 DEF InitExits
  <2> QED BY <1>1, <2>1, <2>2, <2>3, <2>4 DEF InitStep
<1>2. CASE (RunStep \/ RunExits) /\ UNCHANGED <<options, initVars, crds>>
  <2> USE DEF RunCalls, initVars, FreshRun, Assemble
  <2>1. CASE StartRun \/ RunExits
    BY <1>2, <2>1 DEF StartRun, RunExits
  <2>2. CASE RunAccess
    BY <1>2, <2>2 DEF RunAccess, CreateRequest
  <2>3. CASE BuildTLS \/ WebhookServer \/ MetricsServer
    BY <1>2, <2>3 DEF BuildTLS, WebhookServer, MetricsServer
  <2>4. CASE NewManager \/ SetupControllers \/ AddWatchers
    BY <1>2, <2>4 DEF NewManager, SetupControllers, AddWatchers, Options
  <2>5. CASE \E c \in Controllers : SyncSource(c)
    BY <1>2, <2>5 DEF SyncSource
  <2> QED BY <1>2, <2>1, <2>2, <2>3, <2>4, <2>5 DEF RunStep
<1>3. CASE \E command \in {"init", "run"} : Grant(command)
  BY <1>3 DEF Grant, initVars, runVars
<1>4. CASE UNCHANGED vars
  BY <1>4 DEF vars, initVars, runVars
<1> QED BY <1>1, <1>2, <1>3, <1>4 DEF Next

(* The CRDs come first, through every restart.                             *)
LEMMA InstalledFirstStep ==
  CommandTypes /\ InstalledFirst /\ [Next]_vars => InstalledFirst'
<1> SUFFICES ASSUME CommandTypes, InstalledFirst, [Next]_vars
             PROVE  InstalledFirst'
  OBVIOUS
<1> USE DEF InstalledFirst
<1>1. CASE (InitStep \/ InitExits) /\ UNCHANGED <<options, runVars>>
  BY <1>1 DEF InitStep, InitExits, StartInit, InitAccess, InstallCRDs, Register,
       CommandTypes
<1>2. CASE (RunStep \/ RunExits) /\ UNCHANGED <<options, initVars, crds>>
  BY <1>2 DEF initVars
<1>3. CASE \E command \in {"init", "run"} : Grant(command)
  BY <1>3 DEF Grant, initVars
<1>4. CASE UNCHANGED vars
  BY <1>4 DEF vars, initVars
<1> QED BY <1>1, <1>2, <1>3, <1>4 DEF Next

(* The watchers are added in the step that starts the manager.             *)
LEMMA WatchersAddedStep == WatchersAdded /\ [Next]_vars => WatchersAdded'
<1> SUFFICES ASSUME WatchersAdded, [Next]_vars, runPc' = "Running"
             PROVE  options'.certs \subseteq runnables'
  BY DEF WatchersAdded
<1> USE DEF WatchersAdded
<1>1. CASE (InitStep \/ InitExits) /\ UNCHANGED <<options, runVars>>
  BY <1>1 DEF runVars
<1>2. CASE (RunStep \/ RunExits) /\ UNCHANGED <<options, initVars, crds>>
  <2> USE <1>2 DEF Assemble
  <2>1. CASE StartRun \/ RunExits \/ RunAccess
    BY <2>1 DEF StartRun, RunExits, RunAccess, FreshRun
  <2>2. CASE BuildTLS \/ WebhookServer \/ MetricsServer \/ NewManager
             \/ SetupControllers
    BY <2>2 DEF BuildTLS, WebhookServer, MetricsServer, NewManager,
         SetupControllers
  <2>3. CASE AddWatchers \/ \E c \in Controllers : SyncSource(c)
    BY <2>3 DEF AddWatchers, SyncSource
  <2> QED BY <2>1, <2>2, <2>3 DEF RunStep
<1>3. CASE \E command \in {"init", "run"} : Grant(command)
  BY <1>3 DEF Grant, runVars
<1>4. CASE UNCHANGED vars
  BY <1>4 DEF vars, runVars
<1> QED BY <1>1, <1>2, <1>3, <1>4 DEF Next

(* A server gets its certificate, and the other server's slice is as it    *)
(* was.                                                                    *)
LEMMA CertificateAdded ==
  ASSUME SlicesFit, Built, UNCHANGED options, NEW server \in Servers,
         ~Passed(server), Built', Passed(server)',
         \A other \in Servers \ {server} : Passed(other)' <=> Passed(other),
         AddCertificate(server)
  PROVE  /\ memory' \in Memories /\ tlsOpts' \in [Servers -> Pointers]
         /\ Len(memory') <= Len(memory) + 1
         /\ \A each \in Servers : SliceFits(each)'
<1>1. /\ memory \in Memories /\ tlsOpts \in [Servers -> Pointers]
      /\ \A each \in Servers : SliceFits(each)
  BY DEF SlicesFit
<1>2. Common' = Common /\ Len(memory) \in Nat
  BY <1>1, ArrayOfMemory DEF Common
<1>3. \A other \in Servers \ {server} : Contents(other)' = Contents(other)
  BY <1>2 DEF Contents
<1>4. CASE server \notin options.certs
  <2>1. UNCHANGED <<memory, tlsOpts>>
    BY <1>4 DEF AddCertificate
  <2>2. Contents(server)' = Contents(server)
    BY <1>2, <1>4 DEF Contents
  <2>3. \A each \in Servers : Contents(each)' = Contents(each)
    BY <1>3, <2>2
  <2>4. \A each \in Servers : Passed(each) => Passed(each)'
    OBVIOUS
  <2> QED BY <1>1, <1>2, <2>1, <2>3, <2>4 DEF SliceFits
<1>5. CASE server \in options.certs
  <2> DEFINE added == AppendTo(memory, tlsOpts[server], server)
  <2>1. /\ memory' = added.memory
        /\ tlsOpts' = [tlsOpts EXCEPT ![server] = added.slice]
    BY <1>5 DEF AddCertificate
  <2>2. /\ tlsOpts[server] \in Pointers /\ PointsInto(tlsOpts[server], memory)
        /\ Full(tlsOpts[server], memory)
        /\ Cells(memory, tlsOpts[server]) = Common
    BY <1>1 DEF SliceFits, Contents
  <2>3. server \in TLSOptions
    BY DEF TLSOptions
  <2>4. /\ added.memory \in Memories /\ added.slice \in Pointers
        /\ PointsInto(added.slice, added.memory)
        /\ Len(added.memory) = Len(memory) + 1
        /\ Cells(added.memory, added.slice) = Append(Common, server)
        /\ \A other \in Pointers : PointsInto(other, memory) =>
             /\ PointsInto(other, added.memory)
             /\ Cells(added.memory, other) = Cells(memory, other)
             /\ Capacity(added.memory, other) = Capacity(memory, other)
    BY <1>1, <2>2, <2>3, AppendCopies
  <2> HIDE DEF added
  <2>5. SliceFits(server)'
    <3>1. tlsOpts'[server] = added.slice
      BY <1>1, <2>1
    <3>2. Contents(server)' = Append(Common, server)
      BY <1>2, <1>5 DEF Contents
    <3> QED BY <2>1, <2>4, <3>1, <3>2 DEF SliceFits
  <2>6. ASSUME NEW other \in Servers \ {server} PROVE SliceFits(other)'
    <3>1. tlsOpts'[other] = tlsOpts[other] /\ tlsOpts[other] \in Pointers
      BY <1>1, <2>1
    <3>2. PointsInto(tlsOpts[other], memory)
      BY <1>1 DEF SliceFits
    <3>3. /\ PointsInto(tlsOpts[other], memory')
          /\ Cells(memory', tlsOpts[other]) = Cells(memory, tlsOpts[other])
          /\ Capacity(memory', tlsOpts[other]) = Capacity(memory, tlsOpts[other])
      BY <2>1, <2>4, <3>1, <3>2
    <3> QED BY <1>1, <1>3, <3>1, <3>3 DEF SliceFits, Full
  <2> QED BY <1>1, <1>2, <2>1, <2>4, <2>5, <2>6
<1> QED BY <1>4, <1>5

(* The slice both servers start from is empty, or full with one option.    *)
LEMMA BothStart ==
  ASSUME SlicesFit, ~Built, UNCHANGED options, BuildTLS
  PROVE  SlicesFit'
<1>1. memory = <<>> /\ tlsOpts = [server \in Servers |-> Nil]
  BY DEF SlicesFit
<1>2. /\ Built' /\ \A server \in Servers : ~Passed(server)'
      /\ MostArrays' = 1
  BY DEF BuildTLS, Assemble, Built, Passed, MostArrays, Servers
<1>3. \A server \in Servers : Contents(server)' = Common'
  BY <1>2 DEF Contents
<1>4. CASE options.http2
  <2>1. memory' = <<>> /\ tlsOpts' = [server \in Servers |-> Nil]
    BY <1>1, <1>4 DEF BuildTLS
  <2>2. Common' = <<>>
    BY <1>4 DEF Common
  <2>3. <<>> \in Memories /\ Len(<<>>) = 0
    BY NoArrays
  <2> QED BY <1>2, <1>3, <2>1, <2>2, <2>3, NoArrays, NilSlice
          DEF SlicesFit, SliceFits
<1>5. CASE ~options.http2
  <2> DEFINE added == AppendTo(memory, Nil, "http/1.1")
  <2>1. memory' = added.memory /\ tlsOpts' = [server \in Servers |-> added.slice]
    BY <1>1, <1>5 DEF BuildTLS
  <2>2. "http/1.1" \in TLSOptions
    BY DEF TLSOptions
  <2>3. /\ added.memory \in Memories /\ added.slice \in Pointers
        /\ PointsInto(added.slice, added.memory)
        /\ Len(added.memory) = 1
        /\ Cells(added.memory, added.slice) = <<"http/1.1">>
        /\ Capacity(added.memory, added.slice) = Grow(0)
        /\ added.slice.len = 1
    <3>1. /\ memory \in Memories /\ Nil \in Pointers /\ PointsInto(Nil, memory)
          /\ Full(Nil, memory) /\ Cells(memory, Nil) = <<>> /\ Len(memory) = 0
      BY <1>1, NilSlice DEF SlicesFit
    <3>2. Nil.len = 0 /\ Append(<<>>, "http/1.1") = <<"http/1.1">>
      BY DEF Nil
    <3>3. /\ added.memory \in Memories /\ added.slice \in Pointers
          /\ PointsInto(added.slice, added.memory)
          /\ Len(added.memory) = Len(memory) + 1
          /\ Cells(added.memory, added.slice)
               = Append(Cells(memory, Nil), "http/1.1")
          /\ Capacity(added.memory, added.slice) = Grow(Nil.len)
          /\ added.slice.len = Nil.len + 1
      BY <2>2, <3>1, AppendCopies
    <3> HIDE DEF added
    <3> QED BY <3>1, <3>2, <3>3
  <2>4. Full(added.slice, added.memory)
    BY <2>3 DEF Full, Grow
  <2>5. Common' = <<"http/1.1">>
    BY <1>5 DEF Common
  <2> HIDE DEF added
  <2> QED BY <1>2, <1>3, <2>1, <2>3, <2>4, <2>5 DEF SlicesFit, SliceFits
<1> QED BY <1>4, <1>5

(* From step to step the slices stay apart.                                *)
LEMMA SlicesFitStep == SlicesFit /\ [Next]_vars => SlicesFit'
<1> SUFFICES ASSUME SlicesFit, [Next]_vars PROVE SlicesFit'
  OBVIOUS
<1>1. ASSUME UNCHANGED <<options, memory, tlsOpts>>, Built' <=> Built,
             \A server \in Servers : Passed(server)' <=> Passed(server)
      PROVE  SlicesFit'
  <2>1. \A server \in Servers : Contents(server)' = Contents(server)
    BY <1>1 DEF Contents, Common
  <2>2. \A server \in Servers : SliceFits(server)' <=> SliceFits(server)
    BY <1>1, <2>1 DEF SliceFits
  <2>3. MostArrays' = MostArrays
    BY <1>1 DEF MostArrays, Servers
  <2> QED BY <1>1, <2>2, <2>3 DEF SlicesFit
<1>2. ASSUME UNCHANGED <<options, memory, tlsOpts, runPc>> PROVE SlicesFit'
  BY <1>1, <1>2 DEF Built, Passed
<1>3. CASE (InitStep \/ InitExits) /\ UNCHANGED <<options, runVars>>
  BY <1>2, <1>3 DEF runVars
<1>4. CASE (RunStep \/ RunExits) /\ UNCHANGED <<options, initVars, crds>>
  <2>1. CASE StartRun \/ RunExits
    <3>1. /\ memory' = <<>> /\ tlsOpts' = [server \in Servers |-> Nil]
          /\ ~Built'
      BY <2>1 DEF StartRun, RunExits, FreshRun, Built
    <3>2. <<>> \in Memories /\ Len(<<>>) = 0
      BY NoArrays
    <3> QED BY <3>1, <3>2, NoArrays DEF SlicesFit, MostArrays
  <2>2. CASE BuildTLS
    <3>1. ~Built
      BY <2>2 DEF BuildTLS, Assemble, Built
    <3> QED BY <1>4, <2>2, <3>1, BothStart
  <2>3. CASE RunAccess
    BY <1>1, <1>4, <2>3 DEF RunAccess, Built, Passed
  <2>4. CASE WebhookServer
    <3>1. /\ Built /\ Built' /\ ~Passed("webhook") /\ Passed("webhook")'
          /\ ~Passed("metrics") /\ ~Passed("metrics")'
      BY <2>4 DEF WebhookServer, Assemble, Built, Passed
    <3>2. AddCertificate("webhook") /\ Servers \ {"webhook"} = {"metrics"}
      BY <2>4 DEF WebhookServer, Servers
    <3>3. /\ memory' \in Memories /\ tlsOpts' \in [Servers -> Pointers]
          /\ Len(memory') <= Len(memory) + 1
          /\ \A each \in Servers : SliceFits(each)'
      BY <1>4, <3>1, <3>2, CertificateAdded DEF Servers
    <3>4. Len(memory') <= MostArrays'
      BY <3>1, <3>3, ArrayOfMemory DEF SlicesFit, MostArrays
    <3> QED BY <3>1, <3>3, <3>4 DEF SlicesFit
  <2>5. CASE MetricsServer
    <3>1. /\ Built /\ Built' /\ Passed("webhook") /\ Passed("webhook")'
          /\ ~Passed("metrics") /\ Passed("metrics")'
      BY <2>5 DEF MetricsServer, Assemble, Built, Passed
    <3>2. AddCertificate("metrics") /\ Servers \ {"metrics"} = {"webhook"}
      BY <2>5 DEF MetricsServer, Servers
    <3>3. /\ memory' \in Memories /\ tlsOpts' \in [Servers -> Pointers]
          /\ Len(memory') <= Len(memory) + 1
          /\ \A each \in Servers : SliceFits(each)'
      BY <1>4, <3>1, <3>2, CertificateAdded DEF Servers
    <3>4. Len(memory') <= MostArrays'
      BY <3>1, <3>3, ArrayOfMemory DEF SlicesFit, MostArrays
    <3> QED BY <3>1, <3>3, <3>4 DEF SlicesFit
  <2>6. CASE NewManager \/ SetupControllers \/ AddWatchers
    BY <1>1, <1>4, <2>6 DEF NewManager, SetupControllers, AddWatchers, Assemble,
         Built, Passed
  <2>7. CASE \E c \in Controllers : SyncSource(c)
    BY <1>2, <1>4, <2>7 DEF SyncSource
  <2> QED BY <1>4, <2>1, <2>2, <2>3, <2>4, <2>5, <2>6, <2>7 DEF RunStep
<1>5. CASE \E command \in {"init", "run"} : Grant(command)
  BY <1>2, <1>5 DEF Grant, runVars
<1>6. CASE UNCHANGED vars
  BY <1>2, <1>6 DEF vars, runVars
<1> QED BY <1>3, <1>4, <1>5, <1>6 DEF Next

-------------------------------------------------------------------------------
(* Theorems                                                                *)

LEMMA BootstrapInvariant == Spec => []BootstrapInv
<1>1. BootstrapInv /\ [Next]_vars => BootstrapInv'
  BY CommandTypesStep, InstalledFirstStep, WatchersAddedStep, SlicesFitStep
     DEF BootstrapInv
<1> QED BY <1>1, InitBootstrapInv, PTL DEF Spec

(* Each slice holds what its server was configured with.                   *)
LEMMA ContentsBuilt ==
  ASSUME BootstrapInv, NEW server \in Servers, Built
  PROVE  /\ tlsOpts[server] \in Pointers /\ PointsInto(tlsOpts[server], memory)
         /\ Cells(memory, tlsOpts[server]) = Contents(server)
         /\ Contents(server) \in Seq(TLSOptions)
         /\ Len(Contents(server)) = Len(Common)
              + (IF Passed(server) /\ server \in options.certs THEN 1 ELSE 0)
<1>1. server \in TLSOptions
  BY DEF TLSOptions
<1>2. Common \in Seq(TLSOptions) /\ Len(Common) \in Nat
  BY CommonOptions
<1>3. /\ Contents(server) \in Seq(TLSOptions)
      /\ Len(Contents(server)) = Len(Common)
           + (IF Passed(server) /\ server \in options.certs THEN 1 ELSE 0)
  BY <1>1, <1>2, AppendProperties DEF Contents
<1> QED BY <1>3 DEF BootstrapInv, SlicesFit, SliceFits

(* Every variable keeps its type, the three arrays that the appends may    *)
(* make and the two options a slice may hold among them                    *)
(* (main.go:219-334).                                                      *)
THEOREM BootstrapTypeCorrect == Spec => []TypeOK
<1>1. BootstrapInv => TypeOK
  <2> SUFFICES ASSUME BootstrapInv PROVE TypeOK
    OBVIOUS
  <2>1. \A i \in DOMAIN memory : /\ memory[i].cells \in Seq(TLSOptions)
                                 /\ Len(memory[i].cells) <= memory[i].cap
    BY ArrayOfMemory DEF BootstrapInv, SlicesFit
  <2>2. ASSUME NEW server \in Servers PROVE tlsOpts[server] \in Slices
    <3>1. CASE ~Built
      BY <3>1 DEF BootstrapInv, SlicesFit, Slices, Nil
    <3>2. CASE Built
      <4>1. /\ tlsOpts[server] \in Pointers
            /\ PointsInto(tlsOpts[server], memory)
            /\ Cells(memory, tlsOpts[server]) = Contents(server)
            /\ Len(Contents(server)) <= 2
        BY <3>2, ContentsBuilt, CommonOptions
      <4>2. memory \in Memories /\ Len(memory) <= 3
        BY ArrayOfMemory DEF BootstrapInv, SlicesFit, MostArrays
      <4>3. tlsOpts[server].len <= 2
        BY <4>1, <4>2, CellsOfSlice
      <4>4. tlsOpts[server].array <= 3
        BY <4>1, <4>2, ArrayOfMemory DEF PointsInto, Nil
      <4> QED BY <4>1, <4>3, <4>4 DEF Pointers, Slices
    <3> QED BY <3>1, <3>2
  <2> QED BY <2>1, <2>2 DEF BootstrapInv, CommandTypes, SlicesFit, TypeOK
<1> QED BY <1>1, BootstrapInvariant, PTL

(* The provider is announced only when both kinds are served               *)
(* (main.go:188-207).                                                      *)
THEOREM InstalledBeforeRegistered == Spec => []RegisteredMeansInstalled
<1>1. BootstrapInv => RegisteredMeansInstalled
  BY DEF BootstrapInv, InstalledFirst, RegisteredMeansInstalled
<1> QED BY <1>1, BootstrapInvariant, PTL

(* Neither server's certificate gets into the other's slice, although both *)
(* slices grow from one, and each has its watcher (main.go:236-247,        *)
(* 277-334, 372-384).                                                      *)
THEOREM ServersHaveTheirOptions == Spec => []ServersAsConfigured
<1>1. BootstrapInv => ServersAsConfigured
  <2> SUFFICES ASSUME BootstrapInv, runPc = "Running", NEW server \in Servers
               PROVE  Applied(server) =
                        [http2 |-> options.http2,
                         cert  |-> IF server \in options.certs THEN server
                                   ELSE "generated"]
    BY DEF BootstrapInv, WatchersAdded, ServersAsConfigured
  <2> DEFINE cells == Cells(memory, tlsOpts[server])
             certs == {i \in DOMAIN cells : cells[i] \in Servers}
  <2>1. Built /\ Passed(server) /\ options.http2 \in BOOLEAN
    BY DEF Built, Passed, BootstrapInv, CommandTypes, Options
  <2>2. cells = IF server \in options.certs THEN Append(Common, server) ELSE Common
    BY <2>1, ContentsBuilt DEF Contents
  <2>3. Common = IF options.http2 THEN <<>> ELSE <<"http/1.1">>
    BY DEF Common
  <2>4. server # "http/1.1" /\ "http/1.1" \notin Servers
    BY DEF Servers
  <2>5. CASE options.http2 /\ server \in options.certs
    <3>1. cells = <<server>>
      BY <2>2, <2>3, <2>5
    <3>2. DOMAIN cells = {1} /\ cells[1] = server
      BY <3>1
    <3>3. certs = {1} /\ "http/1.1" \notin {cells[i] : i \in DOMAIN cells}
      BY <2>4, <3>2
    <3>4. (CHOOSE i \in certs : \A j \in certs : j <= i) = 1
      BY <3>3
    <3>5. options.http2 = TRUE
      BY <2>1, <2>5
    <3> HIDE DEF certs
    <3> QED BY <2>5, <3>2, <3>3, <3>4, <3>5 DEF Applied, certs
  <2>6. CASE options.http2 /\ server \notin options.certs
    <3>1. cells = <<>>
      BY <2>2, <2>3, <2>6
    <3>2. DOMAIN cells = {}
      BY <3>1
    <3>3. certs = {} /\ "http/1.1" \notin {cells[i] : i \in DOMAIN cells}
      BY <3>2
    <3>4. options.http2 = TRUE
      BY <2>1, <2>6
    <3> QED BY <2>6, <3>3, <3>4 DEF Applied
  <2>7. CASE ~options.http2 /\ server \in options.certs
    <3>1. Common = <<"http/1.1">> /\ cells = Append(Common, server)
      BY <2>2, <2>3, <2>7
    <3>2. /\ DOMAIN cells = {1, 2} /\ cells[1] = "http/1.1"
          /\ cells[2] = server
      <4>1. Common \in Seq(TLSOptions) /\ server \in TLSOptions
        BY CommonOptions DEF TLSOptions
      <4>2. Len(Common) = 1 /\ Common[1] = "http/1.1"
        BY <3>1
      <4>3. /\ cells \in Seq(TLSOptions) /\ Len(cells) = 2
            /\ cells[1] = "http/1.1" /\ cells[2] = server
        BY <3>1, <4>1, <4>2, AppendProperties
      <4> HIDE DEF cells
      <4> QED BY <4>3
    <3>3. certs = {2} /\ "http/1.1" \in {cells[i] : i \in DOMAIN cells}
      BY <2>4, <3>2
    <3>4. (CHOOSE i \in certs : \A j \in certs : j <= i) = 2
      BY <3>3
    <3>5. options.http2 = FALSE
      BY <2>1, <2>7
    <3> HIDE DEF certs
    <3> QED BY <2>7, <3>2, <3>3, <3>4, <3>5 DEF Applied, certs
  <2>8. CASE ~options.http2 /\ server \notin options.certs
    <3>1. cells = <<"http/1.1">>
      BY <2>2, <2>3, <2>8
    <3>2. DOMAIN cells = {1} /\ cells[1] = "http/1.1"
      BY <3>1
    <3>3. certs = {} /\ "http/1.1" \in {cells[i] : i \in DOMAIN cells}
      BY <2>4, <3>2
    <3>4. options.http2 = FALSE
      BY <2>1, <2>8
    <3> QED BY <2>8, <3>3, <3>4 DEF Applied
  <2> QED BY <2>5, <2>6, <2>7, <2>8
<1> QED BY <1>1, BootstrapInvariant, PTL
===============================================================================
