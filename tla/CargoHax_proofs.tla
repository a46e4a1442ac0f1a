--------------------------- MODULE CargoHax_proofs ---------------------------
(***************************************************************************)
(* Proofs about CargoHax, for any number of invocations, packages and      *)
(* command lines: what cargo keeps of an export, what the invocations read, *)
(* and how they end.                                                       *)
(***************************************************************************)
EXTENDS CargoHax, TLAPS

\* The types of what the build of a crate changes.
TargetTypes ==
    /\ config \in [Invocations -> Configs]
    /\ lock \in Invocations \cup {NoOne}
    /\ unit \in [Crates -> Running \cup {"todo", "done", "failed"}]
    /\ fingerprint \in [Crates -> SUBSET Keys]
    /\ replay \in [Crates -> BOOLEAN]
    /\ haxmeta \in [Crates -> {Absent} \cup Haxmeta]

Empty(k)     == [state |-> "empty", by |-> k]
Complete(k)  == {[state |-> s, by |-> k] : s \in {"whole", "cut"}}

\* What the driver of the lock's holder has done of crate c so far.
Progress(p, c) ==
    /\ unit[c] \in Running => fingerprint[c] = {}
    /\ unit[c] \in {"create", "convert", "emit"} => ~replay[c]
    /\ unit[c] \in {"convert", "emit", "flush"} =>
          haxmeta[c] = Empty(Key(config[p]))
    /\ unit[c] = "rustc" /\ replay[c] =>
          haxmeta[c] \in Complete(Key(config[p]))

Recorded(c) ==
    \A k \in fingerprint[c] : replay[c] => haxmeta[c] \in Complete(k)

\* The inductive invariant: crates at rest have what their fingerprint says,
\* and the crates that compile have none.
IInv ==
    /\ TargetTypes
    /\ \A c \in Crates : Recorded(c)
    /\ lock # NoOne => \A c \in Crates : Progress(lock, c)

-----------------------------------------------------------------------------

LEMMA KeyType == ASSUME TargetTypes, NEW p \in Invocations
                 PROVE  Key(config[p]) \in Keys
BY DEF TargetTypes, Keys

LEMMA FileTypes == ASSUME NEW k \in Keys
                   PROVE  Empty(k) \in Haxmeta /\ Complete(k) \subseteq Haxmeta
BY DEF Empty, Complete, Haxmeta

LEMMA InitInv == Init => IInv
BY NoOneAssumption DEF Init, IInv, TargetTypes, Recorded

\* Steps that leave the target directory alone, or only take or leave its lock.
LEMMA AwayInv ==
    ASSUME IInv, UNCHANGED <<config, unit, fingerprint, replay, haxmeta>>,
           lock' \in {lock, NoOne}
    PROVE  IInv'
BY DEF IInv, TargetTypes, Recorded, Progress

LEMMA StartBuildInv == ASSUME IInv, NEW p \in Invocations, StartBuild(p)
                       PROVE  IInv'
<1>1. TargetTypes'
  BY DEF IInv, TargetTypes, StartBuild
<1>2. \A c \in Crates : Recorded(c)'
  BY DEF IInv, Recorded, StartBuild
<1>3. \A c \in Crates : unit'[c] \in {"todo", "done"}
  BY DEF StartBuild
<1>4. \A c \in Crates : Progress(p, c)'
  BY <1>3 DEF Progress, Running
<1> QED
  BY <1>1, <1>2, <1>4 DEF IInv, StartBuild

\* A step of the driver of c: what concerns the other crates is unchanged,
\* except that fingerprints may be dropped.
LEMMA DriverInv ==
    ASSUME IInv, NEW p \in Invocations, lock = p, UNCHANGED <<config, lock>>,
           NEW c \in Crates, TargetTypes',
           Recorded(c)', Progress(p, c)',
           \A d \in Crates \ {c} :
              /\ unit'[d] = unit[d] /\ replay'[d] = replay[d]
              /\ haxmeta'[d] = haxmeta[d]
              /\ fingerprint'[d] \subseteq fingerprint[d]
    PROVE  IInv'
<1>1. ASSUME NEW d \in Crates PROVE Recorded(d)'
  BY DEF IInv, Recorded
<1>2. ASSUME NEW d \in Crates PROVE Progress(p, d)'
  BY NoOneAssumption DEF IInv, Progress
<1> QED
  BY <1>1, <1>2 DEF IInv

LEMMA StepInv ==
    ASSUME IInv, NEW p \in Invocations, NEW c \in Crates,
           Driver(p, c) \/ UnitFails(p, c)
    PROVE  IInv'
<1> DEFINE K == Key(config[p])
<1>0. lock = p /\ TargetTypes /\ Progress(p, c) /\ Recorded(c) /\ K \in Keys
  BY NoOneAssumption, KeyType
     DEF IInv, Driver, UnitFails, Fresh, Ready, StartUnit, CreateFile, Convert,
         EmitHaxMeta, Flush, Compile
<1> HIDE DEF K
<1>1. CASE Fresh(p, c)
  <2>1. TargetTypes'
    BY <1>1, <1>0 DEF Fresh, TargetTypes
  <2>2. unit'[c] = "done"
    BY <1>1, <1>0 DEF Fresh, TargetTypes
  <2>3. Progress(p, c)' /\ Recorded(c)'
    BY <1>1, <1>0, <2>2 DEF Fresh, Progress, Recorded, Running
  <2> QED
    BY <1>1, <1>0, <2>1, <2>3, DriverInv DEF Fresh, TargetTypes
<1>2. CASE StartUnit(p, c)
  <2>1. TargetTypes'
    BY <1>2, <1>0 DEF StartUnit, TargetTypes, Running
  <2>2. unit'[c] \in {"create", "rustc"} /\ fingerprint'[c] = {}
        /\ replay'[c] = FALSE
    BY <1>2, <1>0 DEF StartUnit, TargetTypes
  <2>3. Progress(p, c)' /\ Recorded(c)'
    BY <2>2 DEF Progress, Recorded
  <2> QED
    BY <1>2, <1>0, <2>1, <2>3, DriverInv
       DEF StartUnit, TargetTypes, invocationVars
<1>3. CASE CreateFile(p, c)
  <2>1. TargetTypes'
    BY <1>3, <1>0, FileTypes DEF CreateFile, TargetTypes, Running, K, Empty
  <2>2. unit'[c] = "convert" /\ haxmeta'[c] = Empty(Key(config'[p]))
    BY <1>3, <1>0 DEF CreateFile, TargetTypes, Empty
  <2>3. fingerprint'[c] = {} /\ ~replay'[c]
    BY <1>3, <1>0 DEF CreateFile, Progress, Running
  <2>4. Progress(p, c)' /\ Recorded(c)'
    BY <2>2, <2>3 DEF Progress, Recorded
  <2> QED
    BY <1>3, <1>0, <2>1, <2>4, DriverInv
       DEF CreateFile, TargetTypes, invocationVars
<1>4. CASE Convert(p, c)
  <2>1. TargetTypes'
    BY <1>4, <1>0 DEF Convert, TargetTypes, Running
  <2>2. unit'[c] = "emit"
    BY <1>4, <1>0 DEF Convert, TargetTypes
  <2>3. Progress(p, c)' /\ Recorded(c)'
    BY <1>4, <1>0, <2>2 DEF Convert, Progress, Recorded, Running
  <2> QED
    BY <1>4, <1>0, <2>1, <2>3, DriverInv
       DEF Convert, TargetTypes, invocationVars
<1>5. CASE EmitHaxMeta(p, c)
  <2>1. TargetTypes'
    BY <1>5, <1>0 DEF EmitHaxMeta, TargetTypes, Running
  <2>2. unit'[c] = "flush" /\ replay'[c] = TRUE
    BY <1>5, <1>0 DEF EmitHaxMeta, TargetTypes
  <2>3. Progress(p, c)' /\ Recorded(c)'
    BY <1>5, <1>0, <2>2 DEF EmitHaxMeta, Progress, Recorded, Running
  <2> QED
    BY <1>5, <1>0, <2>1, <2>3, DriverInv DEF EmitHaxMeta, TargetTypes
<1>6. CASE Flush(p, c)
  <2>1. PICK s \in {"whole", "cut"} :
            haxmeta' = [haxmeta EXCEPT ![c].state = s]
    BY <1>6 DEF Flush
  <2>2. haxmeta[c] = Empty(K)
    BY <1>6, <1>0 DEF Flush, Progress, K
  <2>3. haxmeta'[c] = [state |-> s, by |-> K]
    BY <2>1, <2>2, <1>0 DEF TargetTypes, Empty
  <2>4. haxmeta'[c] \in Complete(K) /\ haxmeta'[c] \in Haxmeta
    BY <2>3, <1>0, FileTypes DEF Complete
  <2>5. \A d \in Crates \ {c} : haxmeta'[d] = haxmeta[d]
    BY <2>1, <1>0 DEF TargetTypes
  <2>6. haxmeta' \in [Crates -> {Absent} \cup Haxmeta]
    BY <2>1, <2>4, <2>5, <1>0 DEF TargetTypes
  <2>7. TargetTypes'
    BY <1>6, <1>0, <2>6 DEF Flush, TargetTypes, Running
  <2>8. unit'[c] = "rustc" /\ fingerprint'[c] = {}
    BY <1>6, <1>0 DEF Flush, TargetTypes, Progress, Running
  <2>9. Progress(p, c)' /\ Recorded(c)'
    BY <1>6, <2>4, <2>8 DEF Flush, Progress, Recorded, K
  <2> QED
    BY <1>6, <1>0, <2>5, <2>7, <2>9, DriverInv
       DEF Flush, TargetTypes, invocationVars
<1>7. CASE Compile(p, c)
  <2>1. TargetTypes'
    BY <1>7, <1>0 DEF Compile, TargetTypes, K
  <2>2. unit'[c] = "done" /\ fingerprint'[c] = {K}
    BY <1>7, <1>0 DEF Compile, TargetTypes, K
  <2>3. replay[c] => haxmeta[c] \in Complete(K)
    BY <1>7, <1>0 DEF Compile, Progress, K
  <2>4. Progress(p, c)' /\ Recorded(c)'
    BY <1>7, <2>2, <2>3 DEF Compile, Progress, Recorded, Running
  <2> QED
    BY <1>7, <1>0, <2>1, <2>4, DriverInv
       DEF Compile, TargetTypes, invocationVars
<1>8. CASE UnitFails(p, c)
  <2>1. TargetTypes'
    BY <1>8, <1>0 DEF UnitFails, TargetTypes
  <2>2. unit'[c] = "failed"
    BY <1>8, <1>0 DEF UnitFails, TargetTypes
  <2>3. Progress(p, c)' /\ Recorded(c)'
    BY <1>8, <1>0, <2>2 DEF UnitFails, Progress, Recorded, Running
  <2> QED
    BY <1>8, <1>0, <2>1, <2>3, DriverInv
       DEF UnitFails, TargetTypes, invocationVars
<1> QED
  BY <1>1, <1>2, <1>3, <1>4, <1>5, <1>6, <1>7, <1>8 DEF Driver

LEMMA NextInv == IInv /\ [Next]_vars => IInv'
<1> SUFFICES ASSUME IInv, [Next]_vars PROVE IInv'
  OBVIOUS
<1>1. ASSUME NEW p \in Invocations, Command(p) \/ Interrupted(p) PROVE IInv'
  <2>1. CASE StartBuild(p)
    BY <2>1, StartBuildInv
  <2>2. CASE EndBuild(p) \/ Interrupted(p)
    BY <2>2, AwayInv DEF EndBuild, Interrupted
  <2>3. CASE \/ ReadPanics(p) \/ RunEngine(p) \/ EngineFailure(p)
             \/ ExportJSON(p) \/ Exit(p)
    BY <2>3, AwayInv
       DEF ReadPanics, RunEngine, EngineFailure, ExportJSON, Exit, targetVars
  <2> QED
    BY <1>1, <2>1, <2>2, <2>3 DEF Command
<1>2. ASSUME NEW p \in Invocations, NEW c \in Crates,
             Driver(p, c) \/ UnitFails(p, c)
      PROVE  IInv'
  BY <1>2, StepInv
<1>3. CASE Terminated \/ UNCHANGED vars
  BY <1>3, AwayInv DEF Terminated, vars, targetVars
<1> QED
  BY <1>1, <1>2, <1>3 DEF Next

\* The cache is never wrong about a haxmeta file, whatever builds were
\* interrupted or failed, in any number of invocations and packages.
THEOREM CacheIsSound == Spec => []CacheSound
<1>1. IInv => CacheSound
  BY DEF IInv, Recorded, Complete, CacheSound
<1> QED
  BY <1>1, InitInv, NextInv, PTL DEF Spec

-----------------------------------------------------------------------------
(* What the invocations read, and how they end *)

\* The types of what the invocations keep.
CommandTypes ==
    /\ pc \in [Invocations -> {"start", "build", "run", "ended"}]
    /\ haxmeta_files \in [Invocations -> Seq(Crates)]
    /\ exit_code \in [Invocations -> {0, 101}]
    /\ error \in [Invocations -> BOOLEAN]
    /\ next \in [Invocations -> Nat \ {0}]
    /\ translated \in
          [Invocations -> SUBSET [input : Inputs, errors : BOOLEAN]]
    /\ output_file \in [Invocations -> SUBSET Inputs]
    /\ status \in [Invocations -> {"none", "exit 0", "exit 1", "exit 101",
                      "empty", "cut", "version", "interrupted"}]
    /\ overtaken \in [Invocations -> SUBSET Keys]

\* The keys a file may be exported under when p reads it.
Allowed(p) == {Key(config[p])} \cup overtaken[p]

\* The files read so far.
Behind(p) == {haxmeta_files[p][i] : i \in 1 .. next[p] - 1}

\* What the loop over the haxmeta files did.
Loop(p) ==
    /\ pc[p] \in {"start", "build"} =>
          /\ next[p] = 1 /\ ~error[p]
          /\ translated[p] = {} /\ output_file[p] = {}
    /\ next[p] <= Len(haxmeta_files[p]) + 1
    /\ ~error[p] =>
          /\ \A t \in translated[p] : ~t.errors
          /\ config[p].command = "into" => TranslatedCrates(p) = Behind(p)
    /\ \A i \in UsedInputs(p) : i.by \in Allowed(p)

\* How the invocation ended.
Ended(p) ==
    /\ pc[p] # "ended" => status[p] = "none"
    /\ status[p] = "exit 0" =>
          /\ exit_code[p] = 0 /\ ~error[p]
          /\ next[p] = Len(haxmeta_files[p]) + 1
    /\ status[p] = "empty" => exit_code[p] # 0 \/ overtaken[p] # {}
    /\ status[p] = "version" =>
          \E k \in overtaken[p] : k.version # config[p].version

\* A file named in the build of p is p's, and is whole or cut once the
\* compiler runs.
Named(p, c) ==
    /\ unit[c] \in {"flush", "rustc", "done", "failed"}
    /\ haxmeta[c] \in {Empty(Key(config[p]))} \cup Complete(Key(config[p]))
    /\ unit[c] \in {"rustc", "done"} =>
          haxmeta[c] \in Complete(Key(config[p]))

\* A file p heard of is p's, or that of a build that overtook p.
Readied(p, c) ==
    /\ haxmeta[c] \in Haxmeta
    /\ haxmeta[c].by \in Allowed(p)
    /\ exit_code[p] = 0 /\ overtaken[p] = {} => haxmeta[c].state # "empty"

\* The files p heard of, before, during and after its build.
Files(p) ==
    /\ pc[p] = "start" => haxmeta_files[p] = <<>>
    /\ lock = p => pc[p] = "build" /\ \A c \in Heard(p) : Named(p, c)
    /\ pc[p] = "run" =>
          /\ \A c \in Heard(p) : Readied(p, c)
          /\ lock # NoOne => Key(config[lock]) \in overtaken[p]

\* The inductive invariant.
CInv ==
    /\ IInv
    /\ CommandTypes
    /\ \A p \in Invocations : Loop(p) /\ Ended(p) /\ Files(p)

-----------------------------------------------------------------------------

LEMMA KeyVersion == ASSUME NEW cfg \in Configs
                    PROVE  Key(cfg).version = cfg.version
BY ConfigAssumption DEF Key, Config

LEMMA HeardCrates == ASSUME CInv, NEW p \in Invocations
                     PROVE  Heard(p) \subseteq Crates
<1>1. haxmeta_files[p] \in Seq(Crates)
  BY DEF CInv, CommandTypes
<1>2. \A i \in 1 .. Len(haxmeta_files[p]) : haxmeta_files[p][i] \in Crates
  BY <1>1
<1> QED
  BY <1>2 DEF Heard

LEMMA FileCount == ASSUME CInv, NEW p \in Invocations
                   PROVE  /\ Len(haxmeta_files[p]) \in Nat
                          /\ next[p] \in Nat \ {0}
<1>1. haxmeta_files[p] \in Seq(Crates) /\ next[p] \in Nat \ {0}
  BY DEF CInv, CommandTypes
<1> QED
  BY <1>1

\* What stays true of an invocation that a step of another one overtakes.
LEMMA Bystander ==
    ASSUME CInv, NEW q \in Invocations, config' = config,
           pc'[q] = pc[q], haxmeta_files'[q] = haxmeta_files[q],
           exit_code'[q] = exit_code[q], error'[q] = error[q],
           next'[q] = next[q], translated'[q] = translated[q],
           output_file'[q] = output_file[q], status'[q] = status[q],
           overtaken[q] \subseteq overtaken'[q],
           pc[q] # "run" => overtaken'[q] = overtaken[q]
    PROVE  Loop(q)' /\ Ended(q)'
<1>1. Loop(q) /\ Ended(q)
  BY DEF CInv
<1>2. Loop(q)'
  BY <1>1, ZenonT(30) DEF Loop, Behind, TranslatedCrates, UsedInputs, Allowed
<1>3. Ended(q)'
  BY <1>1 DEF Ended
<1> QED
  BY <1>2, <1>3

LEMMA InitCInv == Init => CInv
<1> SUFFICES ASSUME Init PROVE CInv
  OBVIOUS
<1>1. IInv
  BY InitInv
<1>2. CommandTypes
  BY DEF Init, CommandTypes
<1>3. ASSUME NEW p \in Invocations PROVE Loop(p) /\ Ended(p) /\ Files(p)
  <2>1. /\ pc[p] = "start" /\ haxmeta_files[p] = <<>> /\ next[p] = 1
        /\ ~error[p] /\ translated[p] = {} /\ output_file[p] = {}
        /\ status[p] = "none" /\ lock = NoOne
    BY DEF Init
  <2>2. Behind(p) = {} /\ TranslatedCrates(p) = {} /\ UsedInputs(p) = {}
    BY <2>1 DEF Behind, TranslatedCrates, UsedInputs
  <2> QED
    BY <2>1, <2>2, NoOneAssumption DEF Loop, Ended, Files
<1> QED
  BY <1>1, <1>2, <1>3 DEF CInv

-----------------------------------------------------------------------------
(* The build *)

LEMMA StartBuildCInv == ASSUME CInv, NEW p \in Invocations, StartBuild(p)
                        PROVE  CInv'
<1>1. IInv'
  BY StartBuildInv DEF CInv
<1>2. Key(config[p]) \in Keys
  BY KeyType DEF CInv, IInv
<1>3. CommandTypes'
  BY <1>2 DEF CInv, CommandTypes, StartBuild
<1>4. ASSUME NEW q \in Invocations, q # p
      PROVE  Loop(q)' /\ Ended(q)' /\ Files(q)'
  <2>1. Loop(q)' /\ Ended(q)'
    BY <1>4, Bystander DEF CInv, CommandTypes, StartBuild
  <2>2. Files(q) /\ lock' = p /\ pc'[q] = pc[q]
    BY <1>4 DEF CInv, CommandTypes, StartBuild
  <2>3. pc[q] = "run" => Key(config'[lock']) \in overtaken'[q]
    BY <2>2 DEF StartBuild
  <2>4. pc[q] = "run" => \A c \in Heard(q)' : Readied(q, c)'
    BY <2>2 DEF Files, Readied, Heard, Allowed, StartBuild
  <2> QED
    BY <1>4, <2>1, <2>2, <2>3, <2>4 DEF Files, StartBuild
<1>5. Loop(p)' /\ Ended(p)' /\ Files(p)'
  <2>1. pc[p] = "start" /\ pc'[p] = "build" /\ haxmeta_files'[p] = <<>>
        /\ overtaken'[p] = overtaken[p]
    BY DEF CInv, CommandTypes, Files, StartBuild
  <2>2. Loop(p)'
    BY <2>1 DEF CInv, Loop, Behind, TranslatedCrates, UsedInputs, Allowed,
                StartBuild
  <2>3. Ended(p)'
    BY <2>1 DEF CInv, Ended, StartBuild
  <2>4. Heard(p)' = {}
    BY <2>1 DEF Heard
  <2> QED
    BY <2>1, <2>2, <2>3, <2>4 DEF Files
<1> QED
  BY <1>1, <1>3, <1>4, <1>5 DEF CInv

LEMMA EndBuildCInv == ASSUME CInv, NEW p \in Invocations, EndBuild(p)
                      PROVE  CInv'
<1>1. IInv'
  BY AwayInv DEF CInv, EndBuild
<1>2. CommandTypes'
  BY DEF CInv, CommandTypes, EndBuild
<1>3. lock = p /\ lock' = NoOne /\ lock # NoOne /\ pc'[p] = "run"
  BY NoOneAssumption DEF CInv, CommandTypes, EndBuild
<1>4. ASSUME NEW q \in Invocations, q # p
      PROVE  Loop(q)' /\ Ended(q)' /\ Files(q)'
  <2>1. Loop(q)' /\ Ended(q)'
    BY <1>4, Bystander DEF CInv, CommandTypes, EndBuild
  <2>2. Files(q) /\ pc'[q] = pc[q] /\ exit_code'[q] = exit_code[q]
    BY <1>4 DEF CInv, CommandTypes, EndBuild
  <2>3. pc[q] = "run" => \A c \in Heard(q)' : Readied(q, c)'
    BY <2>2 DEF Files, Readied, Heard, Allowed, EndBuild
  <2>4. lock' # q /\ haxmeta_files'[q] = haxmeta_files[q]
    BY <1>3, NoOneAssumption DEF EndBuild
  <2> QED
    BY <1>3, <2>1, <2>2, <2>3, <2>4 DEF Files
<1>5. Loop(p)' /\ Ended(p)'
  <2>1. Loop(p) /\ Ended(p) /\ pc[p] = "build"
    BY DEF CInv, EndBuild
  <2>2. Loop(p)'
    BY <1>3, <2>1 DEF Loop, Behind, TranslatedCrates, UsedInputs, Allowed,
                      EndBuild
  <2>3. Ended(p)'
    BY <1>3, <2>1 DEF Ended, EndBuild
  <2> QED
    BY <2>2, <2>3
<1>6. ASSUME NEW c \in Heard(p) PROVE Readied(p, c)'
  <2>1. c \in Crates
    BY <1>6, HeardCrates
  <2>2. Named(p, c) /\ Key(config[p]) \in Keys
    BY <1>3, <1>6, KeyType DEF CInv, IInv, Files
  <2>3. haxmeta[c] \in Haxmeta /\ haxmeta[c].by = Key(config[p])
    BY <2>2 DEF Named, Empty, Complete, Haxmeta
  <2>4. exit_code'[p] = 0 => unit[c] \in {"rustc", "done"}
    <3>1. exit_code'[p] = IF \E d \in Crates : unit[d] = "failed" THEN 101
                                                                 ELSE 0
      BY DEF CInv, CommandTypes, EndBuild
    <3>2. exit_code'[p] = 0 => unit[c] # "failed"
      BY <2>1, <3>1
    <3>3. unit[c] # "flush"
      BY <2>1 DEF EndBuild, Running
    <3> QED
      BY <2>2, <3>2, <3>3 DEF Named
  <2>5. exit_code'[p] = 0 => haxmeta[c].state # "empty"
    BY <2>4, <2>2 DEF Named, Complete
  <2> QED
    BY <2>3, <2>5 DEF Readied, Allowed, EndBuild
<1>7. Files(p)'
  BY <1>3, <1>6, NoOneAssumption DEF Files, Heard, EndBuild
<1> QED
  BY <1>1, <1>2, <1>4, <1>5, <1>7 DEF CInv

\* A step of a driver run by p that leaves what p heard of alone, or adds c to
\* it.  Those that overlap p's build have p's key among their allowed ones.
LEMMA DriverCInv ==
    ASSUME CInv, IInv', NEW p \in Invocations, NEW c \in Crates, lock = p,
           UNCHANGED <<config, pc, exit_code, error, next, translated,
                       output_file, status, overtaken, lock>>,
           haxmeta_files' \in [Invocations -> Seq(Crates)],
           \A q \in Invocations \ {p} : haxmeta_files'[q] = haxmeta_files[q],
           \A d \in Crates \ {c} : /\ unit'[d] = unit[d]
                                   /\ haxmeta'[d] = haxmeta[d],
           Heard(p)' \subseteq Heard(p) \cup {c},
           \/ haxmeta'[c] = haxmeta[c]
           \/ /\ haxmeta'[c] \in Haxmeta
              /\ haxmeta'[c].by = Key(config[p]),
           c \in Heard(p)' => Named(p, c)'
    PROVE  CInv'
<1>1. CommandTypes'
  BY DEF CInv, CommandTypes
<1>2. pc[p] = "build" /\ lock # NoOne /\ Files(p)
  BY NoOneAssumption DEF CInv, Files
<1>3. ASSUME NEW q \in Invocations, q # p
      PROVE  Loop(q)' /\ Ended(q)' /\ Files(q)'
  <2>1. Loop(q)' /\ Ended(q)'
    BY <1>3, Bystander
  <2>2. Files(q) /\ haxmeta_files'[q] = haxmeta_files[q]
    BY <1>3 DEF CInv
  <2>3. Heard(q)' = Heard(q)
    BY <2>2 DEF Heard
  <2>4. Heard(q) \subseteq Crates
    BY HeardCrates
  <2>5. ASSUME pc[q] = "run", NEW d \in Heard(q) PROVE Readied(q, d)'
    <3>1. Readied(q, d) /\ Key(config[p]) \in overtaken[q]
      BY <1>2, <2>2, <2>5 DEF Files
    <3>2. CASE haxmeta'[d] = haxmeta[d]
      BY <3>1, <3>2 DEF Readied, Allowed
    <3>3. CASE d = c /\ haxmeta'[c] \in Haxmeta
                     /\ haxmeta'[c].by = Key(config[p])
      BY <3>1, <3>3 DEF Readied, Allowed
    <3> QED
      BY <2>4, <3>2, <3>3
  <2> QED
    BY <1>2, <1>3, <2>1, <2>2, <2>3, <2>5 DEF Files
<1>4. Loop(p)' /\ Ended(p)'
  <2>1. Loop(p) /\ Ended(p) /\ Len(haxmeta_files'[p]) \in Nat
    BY DEF CInv
  <2>2. Behind(p)' = {} /\ TranslatedCrates(p)' = {} /\ UsedInputs(p)' = {}
    BY <1>2, <2>1 DEF Loop, Behind, TranslatedCrates, UsedInputs
  <2>3. /\ next[p] = 1 /\ ~error[p] /\ translated[p] = {}
        /\ output_file[p] = {} /\ status[p] = "none"
    BY <1>2, <2>1 DEF Loop, Ended
  <2>4. Loop(p)'
    BY <2>1, <2>2, <2>3 DEF Loop
  <2>5. Ended(p)'
    BY <2>3 DEF Ended
  <2> QED
    BY <2>4, <2>5
<1>5. Files(p)'
  <2>1. ASSUME NEW d \in Heard(p)', d # c PROVE Named(p, d)'
    <3>1. d \in Heard(p)
      BY <2>1
    <3>2. d \in Crates
      BY <3>1, HeardCrates
    <3> QED
      BY <1>2, <2>1, <3>1, <3>2 DEF Files, Named
  <2> QED
    BY <1>2, <2>1 DEF Files
<1> QED
  BY <1>1, <1>3, <1>4, <1>5 DEF CInv

\* What p heard of when c is appended.
LEMMA HearAdds ==
    ASSUME CInv, NEW p \in Invocations, NEW c \in Crates, Hear(p, c)
    PROVE  /\ haxmeta_files' \in [Invocations -> Seq(Crates)]
           /\ \A q \in Invocations \ {p} : haxmeta_files'[q] = haxmeta_files[q]
           /\ Heard(p)' = Heard(p) \cup {c}
<1>1. haxmeta_files'[p] = Append(haxmeta_files[p], c)
      /\ haxmeta_files[p] \in Seq(Crates)
  BY ZenonT(30) DEF CInv, CommandTypes, Hear
<1>2. /\ Len(haxmeta_files'[p]) = Len(haxmeta_files[p]) + 1
      /\ haxmeta_files'[p][Len(haxmeta_files[p]) + 1] = c
      /\ \A i \in 1 .. Len(haxmeta_files[p]) :
            haxmeta_files'[p][i] = haxmeta_files[p][i]
      /\ Len(haxmeta_files[p]) \in Nat
  BY <1>1
<1>3. Heard(p)' = Heard(p) \cup {c}
  <2>1. \A i \in 1 .. Len(haxmeta_files[p]) + 1 :
            i \in 1 .. Len(haxmeta_files[p]) \/ i = Len(haxmeta_files[p]) + 1
    BY <1>2
  <2>2. Heard(p)' \subseteq Heard(p) \cup {c}
    BY <1>2, <2>1 DEF Heard
  <2>3. \A i \in 1 .. Len(haxmeta_files[p]) :
            i \in 1 .. Len(haxmeta_files'[p])
    BY <1>2
  <2>4. Heard(p) \subseteq Heard(p)'
    BY <1>2, <2>3 DEF Heard
  <2>5. Len(haxmeta_files[p]) + 1 \in 1 .. Len(haxmeta_files'[p])
    BY <1>2
  <2>6. c \in Heard(p)'
    BY <1>2, <2>5 DEF Heard
  <2> QED
    BY <2>2, <2>4, <2>6
<1>4. haxmeta_files' \in [Invocations -> Seq(Crates)]
      /\ \A q \in Invocations \ {p} : haxmeta_files'[q] = haxmeta_files[q]
  <2>1. haxmeta_files \in [Invocations -> Seq(Crates)]
        /\ haxmeta_files' = [haxmeta_files EXCEPT ![p] =
                                Append(haxmeta_files[p], c)]
    BY DEF CInv, CommandTypes, Hear
  <2>2. Append(haxmeta_files[p], c) \in Seq(Crates)
    BY <1>1
  <2> QED
    BY <2>1, <2>2
<1> QED
  BY <1>3, <1>4

LEMMA StepCInv ==
    ASSUME CInv, NEW p \in Invocations, NEW c \in Crates,
           Driver(p, c) \/ UnitFails(p, c)
    PROVE  CInv'
<1> DEFINE K == Key(config[p])
<1>a. lock = p
  BY DEF Driver, UnitFails, Fresh, Ready, StartUnit, CreateFile, Convert,
         EmitHaxMeta, Flush, Compile
<1>b. IInv /\ IInv'
  BY StepInv DEF CInv
<1>c. TargetTypes /\ Progress(p, c) /\ Recorded(c) /\ K \in Keys
  BY <1>a, <1>b, KeyType, NoOneAssumption DEF IInv
<1>d. /\ \A d \in Heard(p) : Named(p, d)
      /\ haxmeta_files \in [Invocations -> Seq(Crates)]
  BY <1>a DEF CInv, CommandTypes, Files
<1>0. /\ lock = p /\ IInv' /\ TargetTypes /\ Progress(p, c) /\ Recorded(c)
      /\ K \in Keys
      /\ \A d \in Heard(p) : Named(p, d)
      /\ haxmeta_files \in [Invocations -> Seq(Crates)]
  BY <1>a, <1>b, <1>c, <1>d
<1> HIDE DEF K
<1>1. CASE Fresh(p, c)
  <2>1. unit'[c] = "done" /\ haxmeta' = haxmeta /\ fingerprint[c] = {K}
        /\ unit[c] = "todo"
    BY <1>1, <1>0 DEF Fresh, Ready, TargetTypes, K
  <2>2. c \notin Heard(p)
    BY <2>1, <1>0 DEF Named
  <2>3. \A d \in Crates \ {c} : unit'[d] = unit[d]
    BY <1>1, <1>0 DEF Fresh, TargetTypes
  <2>4. CASE replay[c]
    <3>1. haxmeta[c] \in Complete(K)
      BY <2>1, <2>4, <1>0 DEF Recorded
    <3>2. Named(p, c)'
      BY <2>1, <3>1, <1>1 DEF Named, Fresh, K
    <3> QED
      BY <1>0, <1>1, <2>1, <2>3, <2>4, <3>2, HearAdds, DriverCInv DEF Fresh
  <2>5. CASE ~replay[c]
    <3>1. Heard(p)' = Heard(p)
      BY <1>1, <2>5 DEF Fresh, Heard
    <3> QED
      BY <1>0, <1>1, <2>1, <2>2, <2>3, <2>5, <3>1, DriverCInv DEF Fresh
  <2> QED
    BY <2>4, <2>5
<1>2. CASE StartUnit(p, c)
  <2>1. unit[c] = "todo" /\ Heard(p)' = Heard(p)
    BY <1>2 DEF StartUnit, Ready, Heard, invocationVars
  <2>2. c \notin Heard(p)
    BY <2>1, <1>0 DEF Named
  <2>3. \A d \in Crates \ {c} : unit'[d] = unit[d] /\ haxmeta'[d] = haxmeta[d]
    BY <1>2, <1>0 DEF StartUnit, TargetTypes
  <2>4. haxmeta'[c] = haxmeta[c]
    BY <1>2 DEF StartUnit
  <2> QED
    BY <1>0, <1>2, <2>1, <2>2, <2>3, <2>4, DriverCInv
       DEF StartUnit, invocationVars
<1>3. CASE CreateFile(p, c)
  <2>1. unit[c] = "create" /\ Heard(p)' = Heard(p)
    BY <1>3 DEF CreateFile, Heard, invocationVars
  <2>2. c \notin Heard(p)
    BY <2>1, <1>0 DEF Named
  <2>3. haxmeta'[c] = Empty(K)
    BY <1>3, <1>0 DEF CreateFile, TargetTypes, Empty, K
  <2>4. haxmeta'[c] \in Haxmeta /\ haxmeta'[c].by = K
    BY <2>3, <1>0 DEF Empty, Haxmeta
  <2>5. \A d \in Crates \ {c} : unit'[d] = unit[d] /\ haxmeta'[d] = haxmeta[d]
    BY <1>3, <1>0 DEF CreateFile, TargetTypes
  <2> QED
    BY <1>0, <1>3, <2>1, <2>2, <2>4, <2>5, DriverCInv
       DEF CreateFile, invocationVars, K
<1>4. CASE Convert(p, c)
  <2>1. unit[c] = "convert" /\ Heard(p)' = Heard(p)
    BY <1>4 DEF Convert, Heard, invocationVars
  <2>2. c \notin Heard(p)
    BY <2>1, <1>0 DEF Named
  <2>3. \A d \in Crates \ {c} : unit'[d] = unit[d] /\ haxmeta'[d] = haxmeta[d]
    BY <1>4, <1>0 DEF Convert, TargetTypes
  <2>4. haxmeta'[c] = haxmeta[c]
    BY <1>4 DEF Convert
  <2> QED
    BY <1>0, <1>4, <2>1, <2>2, <2>3, <2>4, DriverCInv DEF Convert, invocationVars
<1>5. CASE EmitHaxMeta(p, c)
  <2>1. unit'[c] = "flush" /\ haxmeta[c] = Empty(K)
    BY <1>5, <1>0 DEF EmitHaxMeta, TargetTypes, Progress, K
  <2>2. Named(p, c)'
    BY <1>5, <2>1 DEF EmitHaxMeta, Named, K
  <2>3. \A d \in Crates \ {c} : unit'[d] = unit[d]
    BY <1>5, <1>0 DEF EmitHaxMeta, TargetTypes
  <2> QED
    BY <1>0, <1>5, <2>2, <2>3, HearAdds, DriverCInv DEF EmitHaxMeta
<1>6. CASE Flush(p, c)
  <2>1. PICK s \in {"whole", "cut"} :
            haxmeta' = [haxmeta EXCEPT ![c].state = s]
    BY <1>6 DEF Flush
  <2>2. haxmeta[c] = Empty(K)
    BY <1>6, <1>0 DEF Flush, Progress, K
  <2>3. haxmeta'[c] = [state |-> s, by |-> K]
    BY <2>1, <2>2, <1>0 DEF TargetTypes, Empty
  <2>4. haxmeta'[c] \in Complete(K) /\ haxmeta'[c] \in Haxmeta
        /\ haxmeta'[c].by = K
    BY <2>3, <1>0, FileTypes DEF Complete
  <2>5. unit'[c] = "rustc" /\ Heard(p)' = Heard(p)
    BY <1>6, <1>0 DEF Flush, TargetTypes, Heard, invocationVars
  <2>6. Named(p, c)'
    BY <1>6, <2>4, <2>5 DEF Flush, Named, K
  <2>7. \A d \in Crates \ {c} : unit'[d] = unit[d] /\ haxmeta'[d] = haxmeta[d]
    BY <1>6, <1>0, <2>1 DEF Flush, TargetTypes
  <2> QED
    BY <1>0, <1>6, <2>4, <2>5, <2>6, <2>7, DriverCInv
       DEF Flush, invocationVars, K
<1>7. CASE Compile(p, c)
  <2>1. unit[c] = "rustc" /\ unit'[c] = "done" /\ Heard(p)' = Heard(p)
    BY <1>7, <1>0 DEF Compile, TargetTypes, Heard, invocationVars
  <2>2. c \in Heard(p) => Named(p, c)'
    BY <1>7, <1>0, <2>1 DEF Compile, Named
  <2>3. \A d \in Crates \ {c} : unit'[d] = unit[d] /\ haxmeta'[d] = haxmeta[d]
    BY <1>7, <1>0 DEF Compile, TargetTypes
  <2>4. haxmeta'[c] = haxmeta[c]
    BY <1>7 DEF Compile
  <2> QED
    BY <1>0, <1>7, <2>1, <2>2, <2>3, <2>4, DriverCInv DEF Compile, invocationVars
<1>8. CASE UnitFails(p, c)
  <2>1. unit'[c] = "failed" /\ Heard(p)' = Heard(p)
    BY <1>8, <1>0 DEF UnitFails, TargetTypes, Heard, invocationVars
  <2>2. c \in Heard(p) => Named(p, c)'
    BY <1>8, <1>0, <2>1 DEF UnitFails, Named
  <2>3. \A d \in Crates \ {c} : unit'[d] = unit[d] /\ haxmeta'[d] = haxmeta[d]
    BY <1>8, <1>0 DEF UnitFails, TargetTypes
  <2>4. haxmeta'[c] = haxmeta[c]
    BY <1>8 DEF UnitFails
  <2> QED
    BY <1>0, <1>8, <2>1, <2>2, <2>3, <2>4, DriverCInv DEF UnitFails, invocationVars
<1> QED
  BY <1>1, <1>2, <1>3, <1>4, <1>5, <1>6, <1>7, <1>8 DEF Driver

-----------------------------------------------------------------------------
(* run_command *)

\* Steps of p alone: nothing the other invocations depend on changes.
LEMMA AloneCInv ==
    ASSUME CInv, NEW p \in Invocations, CommandTypes',
           UNCHANGED <<config, haxmeta_files, exit_code, overtaken, unit,
                       fingerprint, replay, haxmeta>>,
           \/ lock' = lock
           \/ lock = p /\ lock' = NoOne,
           \A q \in Invocations \ {p} :
              /\ pc'[q] = pc[q] /\ error'[q] = error[q] /\ next'[q] = next[q]
              /\ translated'[q] = translated[q] /\ status'[q] = status[q]
              /\ output_file'[q] = output_file[q],
           pc'[p] \in {"run", "ended"} /\ (pc'[p] = "run" => pc[p] = "run"),
           pc'[p] = "ended" => lock' # p,
           Loop(p)', Ended(p)'
    PROVE  CInv'
<1>1. IInv'
  BY AwayInv DEF CInv
<1>2. ASSUME NEW q \in Invocations, NEW c, Readied(q, c) PROVE Readied(q, c)'
  BY <1>2 DEF Readied, Allowed
<1>3. ASSUME NEW q \in Invocations, q # p
      PROVE  Loop(q)' /\ Ended(q)' /\ Files(q)'
  <2>1. Loop(q)' /\ Ended(q)'
    BY <1>3, Bystander
  <2>2. Files(q) /\ pc'[q] = pc[q] /\ Heard(q)' = Heard(q)
    BY <1>3 DEF CInv, Heard
  <2>3. lock' = q => lock = q
    BY NoOneAssumption
  <2>4. pc[q] = "start" => haxmeta_files'[q] = <<>>
    BY <2>2 DEF Files
  <2>5. lock' = q => pc'[q] = "build" /\ \A c \in Heard(q)' : Named(q, c)'
    BY <2>2, <2>3 DEF Files, Named
  <2>6. pc'[q] = "run" => \A c \in Heard(q)' : Readied(q, c)'
    BY <1>2, <2>2 DEF Files
  <2>7. pc'[q] = "run" /\ lock' # NoOne => Key(config'[lock']) \in overtaken'[q]
    BY <2>2 DEF Files
  <2> QED
    BY <2>1, <2>2, <2>4, <2>5, <2>6, <2>7 DEF Files
<1>4. Files(p)'
  <2>1. Files(p) /\ Heard(p)' = Heard(p)
    BY DEF CInv, Heard
  <2>2. lock' # p
    <3>1. CASE pc'[p] = "ended"
      BY <3>1
    <3>2. CASE pc[p] = "run"
      BY <2>1, <3>2, NoOneAssumption DEF Files
    <3> QED
      BY <3>1, <3>2
  <2>3. pc'[p] = "run" => \A c \in Heard(p)' : Readied(p, c)'
    BY <1>2, <2>1 DEF Files
  <2>4. pc'[p] = "run" /\ lock' # NoOne => Key(config'[lock']) \in overtaken'[p]
    BY <2>1 DEF Files
  <2> QED
    BY <2>2, <2>3, <2>4 DEF Files
<1> QED
  BY <1>1, <1>3, <1>4 DEF CInv

LEMMA InterruptedCInv == ASSUME CInv, NEW p \in Invocations, Interrupted(p)
                         PROVE  CInv'
<1>1. CommandTypes'
  BY DEF CInv, CommandTypes, Interrupted, End
<1>2. pc'[p] = "ended" /\ status'[p] = "interrupted" /\ lock' # p
  BY NoOneAssumption DEF CInv, CommandTypes, Interrupted, End
<1>3. Loop(p)'
  BY <1>2 DEF CInv, Loop, Behind, TranslatedCrates, UsedInputs, Allowed,
              Interrupted
<1>4. Ended(p)'
  BY <1>2 DEF Ended
<1> QED
  BY <1>1, <1>2, <1>3, <1>4, AloneCInv DEF CInv, CommandTypes, Interrupted, End

\* The file that is read next, and what an invocation that reads it meets.
LEMMA CurrentFile ==
    ASSUME CInv, NEW p \in Invocations, Todo(p)
    PROVE  /\ pc[p] = "run" /\ lock # p
           /\ next[p] \in 1 .. Len(haxmeta_files[p])
           /\ Readied(p, haxmeta_files[p][next[p]])
           /\ Input(p) \in Inputs /\ Input(p).by \in Allowed(p)
           /\ Input(p).crate = haxmeta_files[p][next[p]]
<1> DEFINE c == haxmeta_files[p][next[p]]
<1>1. pc[p] = "run" /\ next[p] \in 1 .. Len(haxmeta_files[p])
  BY FileCount DEF Todo
<1>2. c \in Heard(p) /\ c \in Crates
  BY <1>1, HeardCrates DEF Heard
<1>3. Readied(p, c) /\ lock # p
  BY <1>1, <1>2 DEF CInv, Files
<1>4. haxmeta[c].by \in Keys /\ haxmeta[c].by \in Allowed(p)
  BY <1>3 DEF Readied, Haxmeta
<1> QED
  BY <1>1, <1>2, <1>3, <1>4 DEF Input, Inputs, Current

LEMMA ReadPanicsCInv == ASSUME CInv, NEW p \in Invocations, ReadPanics(p)
                        PROVE  CInv'
<1> DEFINE how == CASE Current(p).state = "empty" -> "empty"
                    [] Current(p).state = "cut" -> "cut"
                    [] OTHER -> "version"
           c == haxmeta_files[p][next[p]]
<1>1. Readied(p, c) /\ lock # p /\ pc[p] = "run" /\ Current(p) = haxmeta[c]
      /\ ~Readable(p)
  BY CurrentFile DEF ReadPanics, Current
<1>2. how \in {"empty", "cut", "version"}
  OBVIOUS
<1>3. pc'[p] = "ended" /\ status'[p] = how
  BY ZenonT(30) DEF CInv, CommandTypes, ReadPanics, End
<1>4. how = "empty" => exit_code[p] # 0 \/ overtaken[p] # {}
  BY <1>1 DEF Readied
<1>5. how = "version" => \E k \in overtaken[p] : k.version # config[p].version
  <2>1. SUFFICES ASSUME how = "version"
                 PROVE  \E k \in overtaken[p] : k.version # config[p].version
    OBVIOUS
  <2>2. Current(p).state \notin {"empty", "cut"} /\ Current(p) \in Haxmeta
    BY <1>1, <2>1 DEF Readied
  <2>3. Current(p).by.version # config[p].version
    BY <1>1, <2>2 DEF Readable, Haxmeta
  <2>4. config[p] \in Configs
    BY DEF CInv, IInv, TargetTypes
  <2> QED
    BY <1>1, <2>3, <2>4, KeyVersion DEF Readied, Allowed
<1> HIDE DEF how, c
<1>6. Ended(p)'
  BY <1>2, <1>3, <1>4, <1>5 DEF Ended, ReadPanics
<1>7. Loop(p)'
  BY <1>3 DEF CInv, Loop, Behind, TranslatedCrates, UsedInputs, Allowed,
              ReadPanics
<1>8. CommandTypes'
  BY <1>2 DEF CInv, CommandTypes, ReadPanics, End, how
<1> QED
  BY <1>1, <1>3, <1>6, <1>7, <1>8, AloneCInv
     DEF CInv, CommandTypes, ReadPanics, End, targetVars

LEMMA EngineFailureCInv == ASSUME CInv, NEW p \in Invocations, EngineFailure(p)
                           PROVE  CInv'
<1>1. lock # p
  BY CurrentFile DEF EngineFailure
<1>2. pc'[p] = "ended" /\ status'[p] = "exit 1" /\ CommandTypes'
  BY DEF CInv, CommandTypes, EngineFailure, End
<1>3. Loop(p)' /\ Ended(p)'
  BY <1>2, ZenonT(30) DEF CInv, Loop, Ended, Behind, TranslatedCrates, UsedInputs, Allowed,
              EngineFailure
<1> QED
  BY <1>1, <1>2, <1>3, AloneCInv
     DEF CInv, CommandTypes, EngineFailure, End, targetVars

LEMMA ExitCInv == ASSUME CInv, NEW p \in Invocations, Exit(p)
                  PROVE  CInv'
<1>1. lock # p /\ pc[p] = "run"
  BY DEF CInv, Files, Exit
<1>2. pc'[p] = "ended" /\ CommandTypes'
  BY DEF CInv, CommandTypes, Exit, End
<1>3. /\ status'[p] \in {"exit 0", "exit 1", "exit 101"}
      /\ status'[p] = "exit 0" => exit_code[p] = 0 /\ ~error[p]
  BY DEF CInv, CommandTypes, Exit, End
<1>4. next[p] = Len(haxmeta_files[p]) + 1
  <2>1. next[p] <= Len(haxmeta_files[p]) + 1 /\ next[p] > Len(haxmeta_files[p])
    BY DEF CInv, Loop, Exit
  <2> QED
    BY <2>1, FileCount
<1>5. Loop(p)'
  BY <1>2 DEF CInv, Loop, Behind, TranslatedCrates, UsedInputs, Allowed, Exit
<1>6. Ended(p)'
  BY <1>2, <1>3, <1>4 DEF Ended, Exit
<1> QED
  BY <1>1, <1>2, <1>5, <1>6, AloneCInv
     DEF CInv, CommandTypes, Exit, End, targetVars

LEMMA NextType ==
    ASSUME CInv, NEW p \in Invocations, next' = [next EXCEPT ![p] = @ + 1]
    PROVE  /\ next' \in [Invocations -> Nat \ {0}]
           /\ next'[p] = next[p] + 1
           /\ \A q \in Invocations \ {p} : next'[q] = next[q]
<1>1. next \in [Invocations -> Nat \ {0}]
  BY DEF CInv, CommandTypes
<1>2. next[p] + 1 \in Nat \ {0}
  BY <1>1
<1>3. next' = [next EXCEPT ![p] = next[p] + 1]
  OBVIOUS
<1> QED
  BY <1>1, <1>2, <1>3

\* One more file was read, and at most a call of run_engine recorded.
LEMMA ReadOn ==
    ASSUME CInv, NEW p \in Invocations, Todo(p), CommandTypes',
           UNCHANGED <<config, pc, haxmeta_files, exit_code, status, overtaken,
                       targetVars>>,
           next' = [next EXCEPT ![p] = @ + 1],
           \A q \in Invocations \ {p} :
              /\ error'[q] = error[q] /\ translated'[q] = translated[q]
              /\ output_file'[q] = output_file[q],
           ~error'[p] =>
              /\ \A t \in translated'[p] : ~t.errors
              /\ config[p].command = "into" => TranslatedCrates(p)' = Behind(p)',
           UsedInputs(p)' \subseteq UsedInputs(p) \cup {Input(p)}
    PROVE  CInv'
<1>1. pc[p] = "run" /\ pc'[p] = "run" /\ Input(p).by \in Allowed(p)
      /\ next[p] \in 1 .. Len(haxmeta_files[p])
  BY CurrentFile
<1>2. next'[p] = next[p] + 1
      /\ \A q \in Invocations \ {p} : next'[q] = next[q]
  BY NextType
<1>3. next'[p] <= Len(haxmeta_files'[p]) + 1
  BY <1>1, <1>2, FileCount
<1>4. \A i \in UsedInputs(p)' : i.by \in Allowed(p)'
  BY <1>1 DEF CInv, Loop, Allowed
<1>5. Loop(p)'
  BY <1>1, <1>3, <1>4 DEF Loop
<1>6. Ended(p)'
  BY <1>1 DEF CInv, Ended
<1> QED
  BY <1>1, <1>2, <1>5, <1>6, AloneCInv DEF targetVars

\* What is behind after the current file was read.
LEMMA BehindNext ==
    ASSUME CInv, NEW p \in Invocations, Todo(p), haxmeta_files' = haxmeta_files,
           next' = [next EXCEPT ![p] = @ + 1]
    PROVE  Behind(p)' = Behind(p) \cup {Input(p).crate}
<1>1. next'[p] = next[p] + 1
  BY NextType
<1>2. next[p] \in Nat \ {0}
  BY FileCount
<1>3. 1 .. next'[p] - 1 = (1 .. next[p] - 1) \cup {next[p]}
  BY <1>1, <1>2
<1>4. Behind(p)' = {haxmeta_files[p][i] : i \in (1 .. next[p] - 1) \cup {next[p]}}
  BY <1>3 DEF Behind
<1> QED
  BY <1>4, CurrentFile, ZenonT(30) DEF Behind

LEMMA RunEngineCInv == ASSUME CInv, NEW p \in Invocations, RunEngine(p)
                       PROVE  CInv'
<1>1. Todo(p) /\ config[p].command = "into" /\ Loop(p)
  BY DEF RunEngine, CInv
<1>2. CASE error[p]
  <2>1. CommandTypes'
    <3>1. next' \in [Invocations -> Nat \ {0}]
      BY NextType DEF RunEngine
    <3> QED
      BY <1>2, <3>1 DEF CInv, CommandTypes, RunEngine
  <2>2. UsedInputs(p)' = UsedInputs(p)
    BY <1>2 DEF UsedInputs, RunEngine
  <2> QED
    BY <1>1, <1>2, <2>1, <2>2, ReadOn DEF RunEngine
<1>3. CASE ~error[p]
  <2>1. PICK e \in BOOLEAN : Translate(p, e) /\ error' = [error EXCEPT ![p] = e]
    BY <1>3 DEF RunEngine
  <2> DEFINE t == [input |-> Input(p), errors |-> e]
  <2>2. t \in [input : Inputs, errors : BOOLEAN]
    BY <1>1, CurrentFile
  <2>3. translated' = [translated EXCEPT ![p] = translated[p] \cup {t}]
    BY <2>1 DEF Translate
  <2>4. translated'[p] = translated[p] \cup {t} /\ error'[p] = e
    <3>1. translated \in
            [Invocations -> SUBSET [input : Inputs, errors : BOOLEAN]]
      BY DEF CInv, CommandTypes
    <3>2. error \in [Invocations -> BOOLEAN]
      BY DEF CInv, CommandTypes
    <3> QED
      BY <2>1, <2>3, <3>1, <3>2
  <2>5. t.input = Input(p) /\ t.errors = e
    OBVIOUS
  <2> HIDE DEF t
  <2>6. CommandTypes'
    <3>1. next' \in [Invocations -> Nat \ {0}]
      BY NextType DEF RunEngine
    <3>2. translated \in
            [Invocations -> SUBSET [input : Inputs, errors : BOOLEAN]]
      BY DEF CInv, CommandTypes
    <3>3. translated[p] \cup {t} \in SUBSET [input : Inputs, errors : BOOLEAN]
      BY <2>2, <3>2
    <3>4. translated' \in
            [Invocations -> SUBSET [input : Inputs, errors : BOOLEAN]]
      BY <2>3, <3>2, <3>3
    <3>5. error' \in [Invocations -> BOOLEAN]
      BY <2>1 DEF CInv, CommandTypes
    <3> QED
      BY <3>1, <3>4, <3>5 DEF CInv, CommandTypes, RunEngine
  <2>7. UsedInputs(p)' = UsedInputs(p) \cup {Input(p)}
    BY <2>4, <2>5 DEF UsedInputs, RunEngine
  <2>8. TranslatedCrates(p)' = TranslatedCrates(p) \cup {Input(p).crate}
    BY <2>4, <2>5 DEF TranslatedCrates
  <2>9. Behind(p)' = Behind(p) \cup {Input(p).crate}
    BY <1>1, BehindNext DEF RunEngine
  <2>10. ~error'[p] => \A u \in translated'[p] : ~u.errors
    BY <1>1, <1>3, <2>4, <2>5 DEF Loop
  <2>11. TranslatedCrates(p)' = Behind(p)'
    BY <1>1, <1>3, <2>8, <2>9 DEF Loop
  <2>12. \A q \in Invocations \ {p} :
            /\ error'[q] = error[q] /\ translated'[q] = translated[q]
            /\ output_file'[q] = output_file[q]
    BY <2>1, <2>3 DEF CInv, CommandTypes, RunEngine
  <2> QED
    BY <1>1, <2>6, <2>7, <2>10, <2>11, <2>12, ReadOn DEF RunEngine
<1> QED
  BY <1>2, <1>3

LEMMA ExportJSONCInv == ASSUME CInv, NEW p \in Invocations, ExportJSON(p)
                        PROVE  CInv'
<1>1. Todo(p) /\ config[p].command # "into" /\ Loop(p)
  BY DEF ExportJSON, CInv
<1>2. Input(p) \in Inputs
  BY <1>1, CurrentFile
<1>3. CommandTypes'
  <2>1. next' \in [Invocations -> Nat \ {0}]
    BY NextType DEF ExportJSON
  <2>2. output_file' \in [Invocations -> SUBSET Inputs]
    BY <1>2 DEF CInv, CommandTypes, ExportJSON
  <2> QED
    BY <2>1, <2>2 DEF CInv, CommandTypes, ExportJSON
<1>4. output_file'[p] = {Input(p)}
      /\ \A q \in Invocations \ {p} : output_file'[q] = output_file[q]
  BY DEF CInv, CommandTypes, ExportJSON
<1>5. UsedInputs(p)' \subseteq UsedInputs(p) \cup {Input(p)}
  BY <1>4 DEF UsedInputs, ExportJSON
<1>6. ~error'[p] => \A t \in translated'[p] : ~t.errors
  BY <1>1 DEF Loop, ExportJSON
<1> QED
  BY <1>1, <1>3, <1>4, <1>5, <1>6, ReadOn DEF ExportJSON

LEMMA NextCInv == CInv /\ [Next]_vars => CInv'
<1> SUFFICES ASSUME CInv, [Next]_vars PROVE CInv'
  OBVIOUS
<1>1. ASSUME NEW p \in Invocations, Command(p) \/ Interrupted(p) PROVE CInv'
  BY <1>1, StartBuildCInv, EndBuildCInv, ReadPanicsCInv, RunEngineCInv,
     EngineFailureCInv, ExportJSONCInv, ExitCInv, InterruptedCInv DEF Command
<1>2. ASSUME NEW p \in Invocations, NEW c \in Crates,
             Driver(p, c) \/ UnitFails(p, c)
      PROVE  CInv'
  BY <1>2, StepCInv
<1>3. CASE Terminated \/ UNCHANGED vars
  <2>1. UNCHANGED vars
    BY <1>3 DEF Terminated
  <2>2. IInv'
    BY <2>1, NextInv DEF CInv
  <2>3. CommandTypes'
    BY <2>1 DEF CInv, CommandTypes, vars, invocationVars
  <2>4. ASSUME NEW p \in Invocations PROVE Loop(p)' /\ Ended(p)' /\ Files(p)'
    <3>1. Loop(p) /\ Ended(p) /\ Files(p)
      BY DEF CInv
    <3>2. Loop(p)'
      BY <2>1, <3>1 DEF Loop, Behind, TranslatedCrates, UsedInputs, Allowed,
                        vars, invocationVars
    <3>3. Ended(p)'
      BY <2>1, <3>1 DEF Ended, vars, invocationVars
    <3>4. Files(p)'
      BY <2>1, <3>1 DEF Files, Heard, Named, Readied, Allowed, vars,
                        invocationVars, targetVars
    <3> QED
      BY <3>2, <3>3, <3>4
  <2> QED
    BY <2>2, <2>3, <2>4 DEF CInv
<1> QED
  BY <1>1, <1>2, <1>3 DEF Next

LEMMA CInvHolds == Spec => []CInv
BY InitCInv, NextCInv, PTL DEF Spec

-----------------------------------------------------------------------------

\* The types of everything an invocation and a build keep.
THEOREM TypesHold == Spec => []TypeOK
<1>1. CInv => TypeOK
  BY DEF CInv, IInv, TargetTypes, CommandTypes, TypeOK
<1> QED
  BY <1>1, CInvHolds, PTL

\* An invocation of run_command that no other build overtook meets no file
\* that is empty after a good build, none of another version, and works only
\* on what its own command line exported, for any number of invocations.
THEOREM OverlapAloneMisleads == Spec => []OnlyOverlapMisleads
<1>1. CInv => OnlyOverlapMisleads
  BY DEF CInv, Loop, Ended, Allowed, OnlyOverlapMisleads
<1> QED
  BY <1>1, CInvHolds, PTL

\* Exit code 0 of `cargo hax` means that cargo succeeded, that an engine ran
\* on every crate that was named, and that none reported an error.
THEOREM ExitZeroMeansDone == Spec => []ExitZeroIsClean
<1>1. ASSUME CInv, NEW p \in Invocations, status[p] = "exit 0"
      PROVE  /\ exit_code[p] = 0
             /\ \A t \in translated[p] : ~t.errors
             /\ config[p].command = "into" => TranslatedCrates(p) = Heard(p)
  <2>1. /\ exit_code[p] = 0 /\ ~error[p] /\ Loop(p)
        /\ next[p] = Len(haxmeta_files[p]) + 1
    BY <1>1 DEF CInv, Ended
  <2>2. next[p] - 1 = Len(haxmeta_files[p])
    <3>1. Len(haxmeta_files[p]) \in Nat
      BY <1>1, FileCount
    <3> QED
      BY <2>1, <3>1
  <2>3. Behind(p) = Heard(p)
    BY <2>2 DEF Behind, Heard
  <2> QED
    BY <2>1, <2>3 DEF Loop
<1>2. CInv => ExitZeroIsClean
  BY <1>1 DEF ExitZeroIsClean, TranslatedCrates
<1> QED
  BY <1>2, CInvHolds, PTL
=============================================================================
