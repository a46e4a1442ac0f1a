------------------------ MODULE EngineProtocol_proofs ------------------------
(***************************************************************************)
(* Proofs about EngineProtocol: its types and the pairing of requests with *)
(* answers; what a session delivers (the outputs of the engine pass the    *)
(* pipe in order, cargo-hax acts on each of them once, and returns         *)
(* normally only after the last); and that it implements                   *)
(* TranslationSession, as far as safety goes.  For every set of items and  *)
(* files, every capacity of the pipes and every number of stages, reports  *)
(* and requests.                                                           *)
(***************************************************************************)
EXTENDS EngineProtocol, SequenceTheorems, FiniteSetTheorems, TLAPS

\* Where the two processes can be, besides what the types say.
CargoControl == cargo_hax = "send" => sent < OptionsChunks

EngineControl ==
    /\ engine = "options" => stage = 0 /\ got < OptionsChunks
    /\ engine = "leaving" => stage \in 0 .. LastStage
    /\ engine = "awaiting" => awaiting \in RequestKinds
    /\ engine \in {"options", "working", "awaiting", "leaving", "raising"} =>
          emitted = 0
    /\ engine = "emitting" => stage = AfterRun /\ emitted < Len(Results)

TypeInv == TypeOK /\ CargoControl /\ EngineControl

USE PipeAssumption, ChunksAssumption, StageAssumption, BoundsAssumption

-----------------------------------------------------------------------------
(* Facts about the messages *)

\* Everything the engine writes is a message of the protocol.
LEMMA MessageTypes ==
    /\ Exit \in FromEngine /\ Truncated \in FromEngine
    /\ DebugString \in FromEngine
    /\ Diagnostics \subseteq FromEngine
    /\ FileMessages \subseteq FromEngine
    /\ \A k \in RequestKinds : Request(k) \in FromEngine
    /\ \A e \in BOOLEAN : Profile(e) \in FromEngine
    /\ \A S \in SUBSET Owners : Items(S) \in FromEngine
BY DEF FromEngine, Output

\* The type of a message tells what it carries.
LEMMA MessageContents ==
    ASSUME NEW m \in FromEngine
    PROVE  /\ m.type = "Diagnostic" => m \in Diagnostics
           /\ m.type = "File" => m \in FileMessages
           /\ m.type = "ItemProcessed" => m.items \subseteq Owners
<1> USE DEF Diagnostics, FileMessages, DebugString, Exit, Truncated, Request,
            Profile, Items, RequestKinds
<1>1. CASE m \in Diagnostics  BY <1>1
<1>2. CASE m \in FileMessages  BY <1>2
<1>3. CASE m \in {DebugString, Exit, Truncated}  BY <1>3
<1>4. CASE m \in {Request(k) : k \in RequestKinds}  BY <1>4
<1>5. CASE m \in {Profile(e) : e \in BOOLEAN}  BY <1>5
<1>6. CASE m \in {Items(S) : S \in SUBSET Owners}  BY <1>6
<1>7. QED
  <2> HIDE DEF Diagnostics, FileMessages, DebugString, Exit, Truncated,
               Request, Profile, Items, RequestKinds
  <2>1. QED  BY <1>1, <1>2, <1>3, <1>4, <1>5, <1>6 DEF FromEngine, Output

LEMMA AppendType ==
    ASSUME NEW S, NEW q \in Seq(S), NEW x \in S
    PROVE  Append(q, x) \in Seq(S)
OBVIOUS

\* What main writes at the end is a sequence of messages, `Exit` at least.
LEMMA ResultsType ==
    ASSUME TypeOK
    PROVE  Results \in Seq(FromEngine) /\ Len(Results) \in Nat \ {0}
<1>1. state \in Seq(FromEngine) /\ files \in Seq(FromEngine)
  <2>1. state \in Seq(Diagnostics) /\ files \in Seq(FileMessages)
    BY DEF TypeOK, EngineTypeOK
  <2>2. QED  BY <2>1, MessageTypes
<1>2. DEFINE dbg == IF options.debug THEN <<DebugString>> ELSE <<>>
<1>3. dbg \in Seq(FromEngine) /\ <<Exit>> \in Seq(FromEngine)
  BY MessageTypes
<1>4. Len(<<Exit>>) = 1  OBVIOUS
<1> HIDE DEF dbg
<1>5. state \o files \o dbg \o <<Exit>> \in Seq(FromEngine)
  BY <1>1, <1>3
<1>6. Len(state \o files \o dbg \o <<Exit>>) = Len(state \o files \o dbg) + 1
  BY <1>1, <1>3, <1>4
<1>7. Len(state \o files \o dbg) \in Nat
  BY <1>1, <1>3
<1>8. QED  BY <1>5, <1>6, <1>7 DEF Results, dbg

-----------------------------------------------------------------------------
(* Type correctness *)

\* A write puts one more message of the protocol in the pipe.
LEMMA WriteType ==
    ASSUME fromEngine \in Seq(FromEngine), NEW m \in FromEngine, Write(m)
    PROVE  fromEngine' \in Seq(FromEngine)
BY DEF Write

LEMMA FinalizeType ==
    ASSUME fromEngine \in Seq(FromEngine), NEW e \in BOOLEAN, Finalize(e)
    PROVE  fromEngine' \in Seq(FromEngine)
BY WriteType, MessageTypes DEF Finalize

\* The message cargo-hax takes out leaves a sequence of messages.
LEMMA ReceiveType ==
    ASSUME fromEngine \in Seq(FromEngine), NEW T, Receive(T)
    PROVE  /\ fromEngine' \in Seq(FromEngine)
           /\ Head(fromEngine) \in FromEngine
           /\ Head(fromEngine).type \in T
BY DEF Receive

LEMMA InitTypeInv == Init => TypeInv
<1> SUFFICES ASSUME Init PROVE TypeInv
  OBVIOUS
<1>1. errors_per_item \in [DOMAIN errors_per_item -> Nat]
      /\ DOMAIN errors_per_item \subseteq Owners
  BY DEF Init
<1>2. output \in [diagnostics : Seq(Diagnostics), files : Seq(FileMessages),
                  debug_json : BOOLEAN]
  BY DEF Init, EmptyOutput
<1>3. CargoTypeOK
  <2>1. reported \in Seq(Diagnostics) /\ disk \in Seq(FileMessages)
    BY DEF Init
  <2>2. cargo_hax = "send" /\ sent \in 0 .. OptionsChunks
    BY DEF Init
  <2>3. error \in BOOLEAN
    BY DEF Init
  <2>4. QED  BY <1>1, <1>2, <2>1, <2>2, <2>3 DEF CargoTypeOK
<1>4. EngineTypeOK
  <2>1. state \in Seq(Diagnostics) /\ files \in Seq(FileMessages)
    BY DEF Init
  <2>2. stage \in 0 .. AfterRun /\ got \in 0 .. OptionsChunks
        /\ requests \in 0 .. MaxRequests
    BY DEF Init, AfterRun
  <2>3. QED  BY <2>1, <2>2 DEF Init, EngineTypeOK
<1>5. PipesTypeOK /\ options \in Options
  BY DEF Init, PipesTypeOK
<1>6. CargoControl /\ EngineControl
  BY DEF Init, CargoControl, EngineControl
<1>7. QED  BY <1>3, <1>4, <1>5, <1>6 DEF TypeInv, TypeOK

\* A step of one process leaves the variables of the other alone.
LEMMA CargoStable ==
    ASSUME CargoTypeOK, CargoControl, UNCHANGED cargoVars
    PROVE  CargoTypeOK' /\ CargoControl'
BY DEF CargoTypeOK, CargoControl, cargoVars

LEMMA EngineStable ==
    ASSUME EngineTypeOK, EngineControl, UNCHANGED <<options, engineVars>>
    PROVE  EngineTypeOK' /\ EngineControl'
<1>1. EngineTypeOK'
  BY DEF EngineTypeOK, engineVars, AfterRun
<1>2. Results' = Results
  BY DEF Results, engineVars
<1>3. EngineControl'
  BY <1>2 DEF EngineControl, engineVars, AfterRun
<1>4. QED  BY <1>1, <1>3

LEMMA EngineStepTypeInv ==
    ASSUME TypeInv, Engine \/ Killed
    PROVE  TypeInv'
<1> USE DEF TypeInv, TypeOK
<1>1. CASE ReadOptions
  <2>1. EngineTypeOK'
    BY <1>1 DEF ReadOptions, EngineTypeOK, EngineControl, AfterRun, Options
  <2>2. PipesTypeOK'
    BY <1>1, WriteType, FinalizeType, MessageTypes DEF ReadOptions, PipesTypeOK
  <2>3. EngineControl'
    BY <1>1 DEF ReadOptions, EngineControl, EngineTypeOK, AfterRun, Stages
  <2>4. options' \in Options /\ CargoTypeOK' /\ CargoControl'
    BY <1>1, CargoStable DEF ReadOptions
  <2>5. QED  BY <2>1, <2>2, <2>3, <2>4
<1>2. CASE ReadEOF
  <2>1. EngineTypeOK'
    BY <1>2 DEF ReadEOF, EngineTypeOK, AfterRun, Stages
  <2>2. PipesTypeOK'
    BY <1>2, WriteType, FinalizeType, MessageTypes DEF ReadEOF, PipesTypeOK
  <2>3. EngineControl'
    BY <1>2 DEF ReadEOF, EngineControl, EngineTypeOK, AfterRun, Stages
  <2>4. options' \in Options /\ CargoTypeOK' /\ CargoControl'
    BY <1>2, CargoStable DEF ReadEOF
  <2>5. QED  BY <2>1, <2>2, <2>3, <2>4
<1>3. CASE Report
  <2>1. EngineTypeOK'
    BY <1>3 DEF Report, EngineTypeOK, AfterRun, Stages
  <2>2. PipesTypeOK'
    BY <1>3, WriteType, FinalizeType, MessageTypes DEF Report, PipesTypeOK
  <2>3. EngineControl'
    BY <1>3 DEF Report, EngineControl, EngineTypeOK, AfterRun, Stages
  <2>4. options' \in Options /\ CargoTypeOK' /\ CargoControl'
    BY <1>3, CargoStable DEF Report
  <2>5. QED  BY <2>1, <2>2, <2>3, <2>4
<1>4. CASE DeclareItems
  <2>1. EngineTypeOK'
    BY <1>4 DEF DeclareItems, EngineTypeOK, AfterRun, Stages
  <2>2. PipesTypeOK'
    BY <1>4, WriteType, FinalizeType, MessageTypes DEF DeclareItems, PipesTypeOK
  <2>3. EngineControl'
    BY <1>4 DEF DeclareItems, EngineControl, EngineTypeOK, AfterRun, Stages
  <2>4. options' \in Options /\ CargoTypeOK' /\ CargoControl'
    BY <1>4, CargoStable DEF DeclareItems
  <2>5. QED  BY <2>1, <2>2, <2>3, <2>4
<1>5. CASE ReceiveAnswer
  <2>1. EngineTypeOK'
    BY <1>5 DEF ReceiveAnswer, EngineTypeOK, AfterRun, Stages
  <2>2. PipesTypeOK'
    BY <1>5, WriteType, FinalizeType, MessageTypes DEF ReceiveAnswer, PipesTypeOK
  <2>3. EngineControl'
    BY <1>5 DEF ReceiveAnswer, EngineControl, EngineTypeOK, AfterRun, Stages
  <2>4. options' \in Options /\ CargoTypeOK' /\ CargoControl'
    BY <1>5, CargoStable DEF ReceiveAnswer
  <2>5. QED  BY <2>1, <2>2, <2>3, <2>4
<1>6. CASE FinishStage
  <2>1. EngineTypeOK'
    <3>1. files' \in Seq(FileMessages)
      <4>1. \A f \in Files : [type |-> "File", path |-> f] \in FileMessages
        BY DEF FileMessages
      <4>2. CASE files' = files  BY <4>2 DEF EngineTypeOK
      <4>3. CASE files' = <<>>  BY <4>3
      <4>4. CASE \E f \in Files : files' = <<[type |-> "File", path |-> f]>>
        BY <4>1, <4>4
      <4>5. CASE \E f, g \in Files :
                   files' = <<[type |-> "File", path |-> f],
                              [type |-> "File", path |-> g]>>
        BY <4>1, <4>5
      <4>6. QED  BY <1>6, <4>2, <4>3, <4>4, <4>5 DEF FinishStage
    <3>2. QED  BY <1>6, <3>1 DEF FinishStage, EngineTypeOK, AfterRun
  <2>2. PipesTypeOK'
    BY <1>6, WriteType, FinalizeType, MessageTypes DEF FinishStage, PipesTypeOK
  <2>3. EngineControl'
    BY <1>6 DEF FinishStage, EngineControl, EngineTypeOK, AfterRun, Stages
  <2>4. options' \in Options /\ CargoTypeOK' /\ CargoControl'
    BY <1>6, CargoStable DEF FinishStage
  <2>5. QED  BY <2>1, <2>2, <2>3, <2>4
<1>7. CASE LeaveStage
  <2>1. EngineTypeOK'
    BY <1>7 DEF LeaveStage, EngineTypeOK, EngineControl, AfterRun
  <2>2. PipesTypeOK'
    BY <1>7, WriteType, FinalizeType, MessageTypes DEF LeaveStage, PipesTypeOK
  <2>3. EngineControl'
    BY <1>7 DEF LeaveStage, EngineControl, EngineTypeOK, AfterRun, Stages
  <2>4. options' \in Options /\ CargoTypeOK' /\ CargoControl'
    BY <1>7, CargoStable DEF LeaveStage
  <2>5. QED  BY <2>1, <2>2, <2>3, <2>4
<1>8. CASE RaiseFatal
  <2>1. EngineTypeOK'
    BY <1>8 DEF RaiseFatal, EngineTypeOK, AfterRun, Stages
  <2>2. PipesTypeOK'
    BY <1>8, WriteType, FinalizeType, MessageTypes DEF RaiseFatal, PipesTypeOK
  <2>3. EngineControl'
    BY <1>8 DEF RaiseFatal, EngineControl, EngineTypeOK, AfterRun, Stages
  <2>4. options' \in Options /\ CargoTypeOK' /\ CargoControl'
    BY <1>8, CargoStable DEF RaiseFatal
  <2>5. QED  BY <2>1, <2>2, <2>3, <2>4
<1>9. CASE RaiseCrash
  <2>1. EngineTypeOK'
    BY <1>9 DEF RaiseCrash, EngineTypeOK, AfterRun, Stages
  <2>2. PipesTypeOK'
    BY <1>9, WriteType, FinalizeType, MessageTypes DEF RaiseCrash, PipesTypeOK
  <2>3. EngineControl'
    BY <1>9 DEF RaiseCrash, EngineControl, EngineTypeOK, AfterRun, Stages
  <2>4. options' \in Options /\ CargoTypeOK' /\ CargoControl'
    BY <1>9, CargoStable DEF RaiseCrash
  <2>5. QED  BY <2>1, <2>2, <2>3, <2>4
<1>10. CASE Unwind
  <2>1. EngineTypeOK'
    <3>1. CASE exn = "fatal"
      <4>1. files' = <<>> /\ stage' = AfterRun /\ exn' = "none"
            /\ engine' = "working" /\ exitCode' = exitCode
        BY <1>10, <3>1 DEF Unwind
      <4>2. QED  BY <1>10, <4>1 DEF Unwind, EngineTypeOK, AfterRun
    <3>2. CASE exn # "fatal"
      <4>1. engine' = "exited" /\ exitCode' = 2
            /\ UNCHANGED <<stage, files, exn>>
        BY <1>10, <3>2 DEF Unwind
      <4>2. QED  BY <1>10, <4>1 DEF Unwind, EngineTypeOK, AfterRun
    <3>3. QED  BY <3>1, <3>2
  <2>2. PipesTypeOK'
    BY <1>10, WriteType, FinalizeType, MessageTypes DEF Unwind, PipesTypeOK
  <2>3. EngineControl'
    BY <1>10 DEF Unwind, EngineControl, EngineTypeOK, AfterRun, Stages
  <2>4. options' \in Options /\ CargoTypeOK' /\ CargoControl'
    BY <1>10, CargoStable DEF Unwind
  <2>5. QED  BY <2>1, <2>2, <2>3, <2>4
<1>11. CASE Conclude
  <2>1. EngineTypeOK'
    BY <1>11 DEF Conclude, EngineTypeOK, AfterRun, Stages
  <2>2. PipesTypeOK'
    BY <1>11, WriteType, FinalizeType, MessageTypes DEF Conclude, PipesTypeOK
  <2>3. EngineControl'
    <3>1. Results' = Results
      BY <1>11 DEF Conclude, Results
    <3>2. emitted' = 0 /\ stage' = AfterRun /\ engine' = "emitting"
      BY <1>11 DEF Conclude, EngineControl, AfterRun
    <3>3. QED  BY <3>1, <3>2, ResultsType DEF EngineControl
  <2>4. options' \in Options /\ CargoTypeOK' /\ CargoControl'
    BY <1>11, CargoStable DEF Conclude
  <2>5. QED  BY <2>1, <2>2, <2>3, <2>4
<1>12. CASE Emit
  <2>1. EngineTypeOK'
    BY <1>12 DEF Emit, EngineTypeOK, AfterRun, Stages
  <2>2. PipesTypeOK'
    <3>1. emitted + 1 \in 1 .. Len(Results)
      BY <1>12, ResultsType DEF Emit, EngineControl, EngineTypeOK
    <3>2. Results[emitted + 1] \in FromEngine
      BY <3>1, ResultsType
    <3>3. QED  BY <1>12, <3>2, WriteType DEF Emit, PipesTypeOK
  <2>3. EngineControl'
    <3>1. Results' = Results
      BY <1>12 DEF Emit, Results
    <3>2. emitted' = emitted + 1 /\ stage' = AfterRun
          /\ emitted < Len(Results) /\ engine = "emitting"
      BY <1>12 DEF Emit, EngineControl, AfterRun
    <3>3. engine' = IF emitted' = Len(Results) THEN "closing" ELSE "emitting"
      BY <1>12 DEF Emit
    <3>4. QED  BY <3>1, <3>2, <3>3, ResultsType DEF EngineControl, EngineTypeOK
  <2>4. options' \in Options /\ CargoTypeOK' /\ CargoControl'
    BY <1>12, CargoStable DEF Emit
  <2>5. QED  BY <2>1, <2>2, <2>3, <2>4
<1>13. CASE Close
  <2>1. EngineTypeOK'
    BY <1>13 DEF Close, EngineTypeOK, AfterRun, Stages
  <2>2. PipesTypeOK'
    BY <1>13, WriteType, FinalizeType, MessageTypes DEF Close, PipesTypeOK
  <2>3. EngineControl'
    BY <1>13 DEF Close, EngineControl, EngineTypeOK, AfterRun, Stages
  <2>4. options' \in Options /\ CargoTypeOK' /\ CargoControl'
    BY <1>13, CargoStable DEF Close
  <2>5. QED  BY <2>1, <2>2, <2>3, <2>4
<1>14. CASE BrokenPipe
  <2>1. EngineTypeOK'
    BY <1>14 DEF BrokenPipe, EngineTypeOK, AfterRun, Stages
  <2>2. PipesTypeOK'
    BY <1>14, WriteType, FinalizeType, MessageTypes DEF BrokenPipe, PipesTypeOK
  <2>3. EngineControl'
    BY <1>14 DEF BrokenPipe, EngineControl, EngineTypeOK, AfterRun, Stages
  <2>4. options' \in Options /\ CargoTypeOK' /\ CargoControl'
    BY <1>14, CargoStable DEF BrokenPipe
  <2>5. QED  BY <2>1, <2>2, <2>3, <2>4
<1>15. CASE Killed
  <2>1. EngineTypeOK'
    BY <1>15 DEF Killed, EngineTypeOK, AfterRun, Stages
  <2>2. PipesTypeOK'
    BY <1>15, WriteType, FinalizeType, MessageTypes DEF Killed, PipesTypeOK
  <2>3. EngineControl'
    BY <1>15 DEF Killed, EngineControl, EngineTypeOK, AfterRun, Stages
  <2>4. options' \in Options /\ CargoTypeOK' /\ CargoControl'
    BY <1>15, CargoStable DEF Killed
  <2>5. QED  BY <2>1, <2>2, <2>3, <2>4
<1>16. ASSUME NEW k \in RequestKinds, Ask(k) PROVE TypeInv'
  <2>1. EngineTypeOK'
    BY <1>16 DEF Ask, EngineTypeOK, AfterRun, Stages
  <2>2. PipesTypeOK'
    BY <1>16, WriteType, FinalizeType, MessageTypes DEF Ask, PipesTypeOK
  <2>3. EngineControl'
    BY <1>16 DEF Ask, EngineControl, EngineTypeOK, AfterRun, Stages
  <2>4. options' \in Options /\ CargoTypeOK' /\ CargoControl'
    BY <1>16, CargoStable DEF Ask
  <2>5. QED  BY <2>1, <2>2, <2>3, <2>4
<1>17. QED
  BY <1>1, <1>2, <1>3, <1>4, <1>5, <1>6, <1>7, <1>8, <1>9, <1>10, <1>11, <1>12, <1>13, <1>14, <1>15, <1>16 DEF Engine

LEMMA CargoStepTypeInv ==
    ASSUME TypeInv, CargoHax \/ CargoHaxKilled
    PROVE  TypeInv'
<1> USE DEF TypeInv, TypeOK
<1>1. UNCHANGED <<options, engineVars>>
  BY DEF CargoHax, CargoHaxKilled, SendOptions, SendFails, HandleDiagnostic, HandleFile,
     HandleDebugString, HandleRequest, HandleProfilingData,
     HandleItemProcessed, HandleExit, EndOfOutput, HandlerPanics, Stats, Wait
<1>2. options' \in Options /\ EngineTypeOK' /\ EngineControl'
  BY <1>1, EngineStable
<1>3. CASE SendOptions
  <2>1. CargoTypeOK'
    BY <1>3 DEF SendOptions, CargoTypeOK, CargoControl
  <2>2. PipesTypeOK'
    BY <1>3, ReceiveType DEF SendOptions, PipesTypeOK, ToEngine
  <2>3. CargoControl'
    BY <1>3 DEF SendOptions, CargoControl, CargoTypeOK, Receive
  <2>4. QED  BY <1>2, <2>1, <2>2, <2>3
<1>4. CASE SendFails
  <2>1. CargoTypeOK'
    BY <1>4, ReceiveType DEF SendFails, CargoTypeOK, PipesTypeOK
  <2>2. PipesTypeOK'
    BY <1>4, ReceiveType DEF SendFails, PipesTypeOK, ToEngine
  <2>3. CargoControl'
    BY <1>4 DEF SendFails, CargoControl, CargoTypeOK, Receive
  <2>4. QED  BY <1>2, <2>1, <2>2, <2>3
<1>5. CASE HandleDiagnostic
  <2>1. CargoTypeOK'
    <3>1. Head(fromEngine) \in Diagnostics
      BY <1>5, ReceiveType, MessageContents, SMTT(20) DEF HandleDiagnostic, PipesTypeOK
    <3>2. DEFINE d == Head(fromEngine)
    <3>3. d \in Diagnostics  BY <3>1
    <3> HIDE DEF d
    <3>4. reported' \in Seq(Diagnostics)
      BY <1>5, <3>3 DEF HandleDiagnostic, CargoTypeOK, d
    <3>5. output' \in [diagnostics : Seq(Diagnostics),
                       files : Seq(FileMessages), debug_json : BOOLEAN]
      <4>1. output' = output \/
            output' = [output EXCEPT !.diagnostics = Append(@, d)]
        BY <1>5 DEF HandleDiagnostic, d
      <4>2. Append(output.diagnostics, d) \in Seq(Diagnostics)
        BY <3>3, AppendType DEF CargoTypeOK
      <4>3. QED  BY <4>1, <4>2 DEF CargoTypeOK
    <3>6. /\ DOMAIN errors_per_item' \subseteq Owners
          /\ errors_per_item' \in [DOMAIN errors_per_item' -> Nat]
      <4>1. CASE d.owner = NoOwner
        BY <1>5, <4>1 DEF HandleDiagnostic, CargoTypeOK, d
      <4>2. CASE d.owner # NoOwner
        <5>1. d.owner \in Owners /\ CountError(d.owner)
          BY <1>5, <3>3, <4>2 DEF HandleDiagnostic, d, Diagnostics
        <5>2. QED  BY <5>1 DEF CountError, CargoTypeOK
      <4>3. QED  BY <4>1, <4>2
    <3>7. QED  BY <1>5, <3>4, <3>5, <3>6 DEF HandleDiagnostic, CargoTypeOK, Receive
  <2>2. PipesTypeOK'
    BY <1>5, ReceiveType DEF HandleDiagnostic, PipesTypeOK, ToEngine
  <2>3. CargoControl'
    BY <1>5 DEF HandleDiagnostic, CargoControl, CargoTypeOK, Receive
  <2>4. QED  BY <1>2, <2>1, <2>2, <2>3
<1>6. CASE HandleFile
  <2>1. CargoTypeOK'
    <3>1. Head(fromEngine) \in FileMessages
      BY <1>6, ReceiveType, MessageContents DEF HandleFile, PipesTypeOK
    <3>2. disk' \in Seq(FileMessages)
      <4>1. disk' = disk \/ disk' = Append(disk, Head(fromEngine))
        BY <1>6 DEF HandleFile
      <4>2. disk \in Seq(FileMessages)  BY DEF CargoTypeOK
      <4>3. Append(disk, Head(fromEngine)) \in Seq(FileMessages)
        BY <3>1, <4>2, AppendType
      <4>4. QED  BY <4>1, <4>2, <4>3
    <3>3. output' \in [diagnostics : Seq(Diagnostics),
                       files : Seq(FileMessages), debug_json : BOOLEAN]
      <4>1. output' = output \/
            output' = [output EXCEPT !.files = Append(@, Head(fromEngine))]
        BY <1>6 DEF HandleFile
      <4>2. Append(output.files, Head(fromEngine)) \in Seq(FileMessages)
        BY <3>1, AppendType DEF CargoTypeOK
      <4>3. QED  BY <4>1, <4>2 DEF CargoTypeOK
    <3>4. QED  BY <1>6, <3>2, <3>3 DEF HandleFile, CargoTypeOK, Receive
  <2>2. PipesTypeOK'
    BY <1>6, ReceiveType DEF HandleFile, PipesTypeOK, ToEngine
  <2>3. CargoControl'
    BY <1>6 DEF HandleFile, CargoControl, CargoTypeOK, Receive
  <2>4. QED  BY <1>2, <2>1, <2>2, <2>3
<1>7. CASE HandleDebugString
  <2>1. CargoTypeOK'
    BY <1>7, ReceiveType DEF HandleDebugString, CargoTypeOK, PipesTypeOK
  <2>2. PipesTypeOK'
    BY <1>7, ReceiveType DEF HandleDebugString, PipesTypeOK, ToEngine
  <2>3. CargoControl'
    BY <1>7 DEF HandleDebugString, CargoControl, CargoTypeOK, Receive
  <2>4. QED  BY <1>2, <2>1, <2>2, <2>3
<1>8. CASE HandleRequest
  <2>1. CargoTypeOK' /\ CargoControl'
    BY <1>8, CargoStable DEF HandleRequest
  <2>2. PipesTypeOK'
    <3>1. AnswerTo[Head(fromEngine).type] \in ToEngine
      BY <1>8, ReceiveType DEF HandleRequest, PipesTypeOK, AnswerTo, ToEngine,
         RequestKinds
    <3>2. QED  BY <1>8, <3>1, ReceiveType DEF HandleRequest, PipesTypeOK
  <2>3. CargoControl'  BY <2>1
  <2>4. QED  BY <1>2, <2>1, <2>2, <2>3
<1>9. CASE HandleProfilingData
  <2>1. CargoTypeOK' /\ CargoControl'
    BY <1>9, CargoStable DEF HandleProfilingData
  <2>2. PipesTypeOK'
    BY <1>9, ReceiveType DEF HandleProfilingData, PipesTypeOK, ToEngine
  <2>3. CargoControl'  BY <2>1
  <2>4. QED  BY <1>2, <2>1, <2>2, <2>3
<1>10. CASE HandleItemProcessed
  <2>1. CargoTypeOK'
    <3>1. Head(fromEngine).items \subseteq Owners
      BY <1>10, ReceiveType, MessageContents
      DEF HandleItemProcessed, PipesTypeOK
    <3>2. /\ DOMAIN errors_per_item' \subseteq Owners
          /\ errors_per_item' \in [DOMAIN errors_per_item' -> Nat]
      BY <1>10, <3>1 DEF HandleItemProcessed, CargoTypeOK
    <3>3. QED  BY <1>10, <3>2 DEF HandleItemProcessed, CargoTypeOK, Receive
  <2>2. PipesTypeOK'
    BY <1>10, ReceiveType DEF HandleItemProcessed, PipesTypeOK, ToEngine
  <2>3. CargoControl'
    BY <1>10 DEF HandleItemProcessed, CargoControl, CargoTypeOK, Receive
  <2>4. QED  BY <1>2, <2>1, <2>2, <2>3
<1>11. CASE HandleExit
  <2>1. CargoTypeOK'
    BY <1>11, ReceiveType DEF HandleExit, CargoTypeOK, PipesTypeOK
  <2>2. PipesTypeOK'
    BY <1>11, ReceiveType DEF HandleExit, PipesTypeOK, ToEngine
  <2>3. CargoControl'
    BY <1>11 DEF HandleExit, CargoControl, CargoTypeOK, Receive
  <2>4. QED  BY <1>2, <2>1, <2>2, <2>3
<1>12. CASE EndOfOutput
  <2>1. CargoTypeOK'
    BY <1>12, ReceiveType DEF EndOfOutput, CargoTypeOK, PipesTypeOK
  <2>2. PipesTypeOK'
    BY <1>12, ReceiveType DEF EndOfOutput, PipesTypeOK, ToEngine
  <2>3. CargoControl'
    BY <1>12 DEF EndOfOutput, CargoControl, CargoTypeOK, Receive
  <2>4. QED  BY <1>2, <2>1, <2>2, <2>3
<1>13. CASE HandlerPanics
  <2>1. CargoTypeOK'
    <3>1. disk' \in Seq(FileMessages)
      <4>1. CASE disk' = disk  BY <4>1 DEF CargoTypeOK
      <4>2. CASE /\ Head(fromEngine) \in FileMessages
                 /\ disk' = Append(disk, Head(fromEngine))
        BY <4>2, AppendType DEF CargoTypeOK
      <4>3. QED  BY <1>13, <4>1, <4>2 DEF HandlerPanics
    <3>2. QED  BY <1>13, <3>1 DEF HandlerPanics, CargoTypeOK, Receive
  <2>2. PipesTypeOK'
    BY <1>13, ReceiveType DEF HandlerPanics, PipesTypeOK, ToEngine
  <2>3. CargoControl'
    BY <1>13 DEF HandlerPanics, CargoControl, CargoTypeOK, Receive
  <2>4. QED  BY <1>2, <2>1, <2>2, <2>3
<1>14. CASE Stats
  <2>1. CargoTypeOK'
    BY <1>14, ReceiveType DEF Stats, CargoTypeOK, PipesTypeOK
  <2>2. PipesTypeOK'
    BY <1>14, ReceiveType DEF Stats, PipesTypeOK, ToEngine
  <2>3. CargoControl'
    BY <1>14 DEF Stats, CargoControl, CargoTypeOK, Receive
  <2>4. QED  BY <1>2, <2>1, <2>2, <2>3
<1>15. CASE Wait
  <2>1. CargoTypeOK'
    BY <1>15, ReceiveType DEF Wait, CargoTypeOK, PipesTypeOK
  <2>2. PipesTypeOK'
    BY <1>15, ReceiveType DEF Wait, PipesTypeOK, ToEngine
  <2>3. CargoControl'
    BY <1>15 DEF Wait, CargoControl, CargoTypeOK, Receive
  <2>4. QED  BY <1>2, <2>1, <2>2, <2>3
<1>16. CASE CargoHaxKilled
  <2>1. CargoTypeOK'
    BY <1>16 DEF CargoHaxKilled, CargoTypeOK
  <2>2. PipesTypeOK'
    BY <1>16 DEF CargoHaxKilled, PipesTypeOK
  <2>3. CargoControl'
    BY <1>16 DEF CargoHaxKilled, CargoControl
  <2>4. QED  BY <1>2, <2>1, <2>2, <2>3
<1>17. QED
  BY <1>3, <1>4, <1>5, <1>6, <1>7, <1>8, <1>9, <1>10, <1>11, <1>12, <1>13, <1>14, <1>15, <1>16 DEF CargoHax

\* Every step keeps the types and the control invariant.
LEMMA StepTypeInv == TypeInv /\ [Next]_vars => TypeInv'
<1> SUFFICES ASSUME TypeInv, [Next]_vars PROVE TypeInv'
  OBVIOUS
<1>1. CASE Engine \/ Killed  BY <1>1, EngineStepTypeInv
<1>2. CASE CargoHax \/ CargoHaxKilled  BY <1>2, CargoStepTypeInv
<1>3. CASE UNCHANGED vars
  <2>1. UNCHANGED <<options, engineVars>> /\ UNCHANGED cargoVars
        /\ UNCHANGED <<toEngine, fromEngine>>
    BY <1>3 DEF vars
  <2>2. CargoTypeOK' /\ CargoControl' /\ EngineTypeOK' /\ EngineControl'
    BY <2>1, CargoStable, EngineStable DEF TypeInv, TypeOK
  <2>3. PipesTypeOK' /\ options' \in Options
    BY <2>1 DEF TypeInv, TypeOK, PipesTypeOK
  <2>4. QED  BY <2>2, <2>3 DEF TypeInv, TypeOK
<1>4. QED  BY <1>1, <1>2, <1>3 DEF Next, Terminated

\* In every state of every session each variable has its type: run_engine and
\* the engine only ever exchange messages of the protocol.
THEOREM TypeCorrect == Spec => []TypeOK
<1>1. Spec => []TypeInv
  BY InitTypeInv, StepTypeInv, PTL DEF Spec
<1>2. TypeInv => TypeOK
  BY DEF TypeInv
<1>3. QED  BY <1>1, <1>2, PTL

-----------------------------------------------------------------------------
(* Pairing of requests and answers *)

\* The pipes between two requests.
Quiet == toEngine = <<>> /\ NoRequest(fromEngine)

\* While the options are being read the other pipe carries nothing but them;
\* afterwards cargo-hax has sent them all, and the pipes are quiet whenever
\* the engine is not waiting for an answer.  An engine that dies of the end
\* of its stdin may leave its request unread, but then nobody reads it.
Pairing ==
    /\ engine = "options" =>
          /\ NoRequest(fromEngine)
          /\ Len(toEngine) = sent - got
    /\ engine \notin {"options", "exited"} => cargo_hax # "send"
    /\ engine \in {"working", "leaving", "emitting", "closing"} => Quiet
    /\ engine = "raising" =>
          /\ toEngine = <<>>
          /\ NoRequest(fromEngine) \/ ~StdoutOpen
          /\ exn = "fatal" => NoRequest(fromEngine)
    /\ RequestOutstanding

PairInv == TypeInv /\ Pairing

\* How the pipe changes when a message is added or taken out.
LEMMA NoRequestAppend ==
    ASSUME NEW S, NEW q \in Seq(S), NEW m, NoRequest(q), ~IsRequest(m)
    PROVE  NoRequest(Append(q, m))
BY DEF NoRequest

LEMMA RequestAppend ==
    ASSUME NEW S, NEW q \in Seq(S), NEW m, NoRequest(q), IsRequest(m)
    PROVE  /\ EndsWithRequest(Append(q, m))
           /\ Append(q, m)[Len(Append(q, m))] = m
BY DEF NoRequest, EndsWithRequest

LEMMA NoRequestTail ==
    ASSUME NEW S, NEW q \in Seq(S), q # <<>>, NoRequest(q)
    PROVE  NoRequest(Tail(q)) /\ ~IsRequest(Head(q))
BY DEF NoRequest

LEMMA RequestTail ==
    ASSUME NEW S, NEW q \in Seq(S), q # <<>>, EndsWithRequest(q)
    PROVE  /\ IsRequest(Head(q)) => Tail(q) = <<>> /\ Head(q) = q[Len(q)]
           /\ ~IsRequest(Head(q)) =>
                /\ EndsWithRequest(Tail(q))
                /\ Tail(q)[Len(Tail(q))] = q[Len(q)]
<1>1. CASE Len(q) = 1
  <2>1. Tail(q) \in Seq(S) /\ Len(Tail(q)) = 0
    BY <1>1
  <2>2. Tail(q) = <<>>
    BY <2>1, EmptySeq
  <2>3. Head(q) = q[Len(q)]
    BY <1>1
  <2>4. QED  BY <2>2, <2>3 DEF EndsWithRequest
<1>2. CASE Len(q) > 1
  <2>1. Head(q) = q[1] /\ ~IsRequest(Head(q))
    BY <1>2 DEF EndsWithRequest
  <2>2. Len(Tail(q)) = Len(q) - 1 /\ Tail(q)[Len(Tail(q))] = q[Len(q)]
    BY <1>2
  <2>3. \A i \in 1 .. Len(Tail(q)) - 1 : Tail(q)[i] = q[i + 1]
    BY <1>2
  <2>4. EndsWithRequest(Tail(q))
    BY <1>2, <2>2, <2>3 DEF EndsWithRequest
  <2>5. QED  BY <2>1, <2>2, <2>4
<1>3. QED  BY <1>1, <1>2 DEF EndsWithRequest

\* Which messages are requests.
LEMMA RequestMessages ==
    /\ ~IsRequest(Exit) /\ ~IsRequest(Truncated) /\ ~IsRequest(DebugString)
    /\ \A d \in Diagnostics \cup FileMessages : ~IsRequest(d)
    /\ \A e \in BOOLEAN : ~IsRequest(Profile(e))
    /\ \A S \in SUBSET Owners : ~IsRequest(Items(S))
    /\ \A k \in RequestKinds : IsRequest(Request(k)) /\ Request(k).type = k
BY DEF IsRequest, RequestKinds, Exit, Truncated, DebugString, Diagnostics,
       FileMessages, Profile, Items, Request

\* None of the messages written at the end is a request.
LEMMA ResultsNoRequest ==
    ASSUME TypeOK, NEW i \in 1 .. Len(Results)
    PROVE  ~IsRequest(Results[i])
<1> DEFINE Ok == {m \in FromEngine : ~IsRequest(m)}
<1>1. state \in Seq(Ok) /\ files \in Seq(Ok)
  <2>1. Diagnostics \subseteq Ok /\ FileMessages \subseteq Ok
    BY MessageTypes, RequestMessages
  <2>2. state \in Seq(Diagnostics) /\ files \in Seq(FileMessages)
    BY DEF TypeOK, EngineTypeOK
  <2> HIDE DEF Ok
  <2>3. QED  BY <2>1, <2>2
<1> DEFINE dbg == IF options.debug THEN <<DebugString>> ELSE <<>>
<1>2. dbg \in Seq(Ok) /\ <<Exit>> \in Seq(Ok)
  <2>1. DebugString \in Ok /\ Exit \in Ok
    BY MessageTypes, RequestMessages
  <2> HIDE DEF Ok
  <2>2. QED  BY <2>1
<1>3. Results \in Seq(Ok)
  <2> HIDE DEF Ok, dbg
  <2>1. state \o files \o dbg \o <<Exit>> \in Seq(Ok)
    BY <1>1, <1>2
  <2>2. QED  BY <2>1 DEF Results, dbg
<1>4. Results[i] \in Ok
  <2> HIDE DEF Ok
  <2>1. QED  BY <1>3
<1>5. QED  BY <1>4

LEMMA InitPairing == Init => Pairing
<1> SUFFICES ASSUME Init PROVE Pairing
  OBVIOUS
<1>1. NoRequest(fromEngine) /\ Len(toEngine) = sent - got
  BY DEF Init, NoRequest
<1>2. QED
  BY <1>1 DEF Init, Pairing, RequestOutstanding

\* Writing something else than a request, and taking it out, keeps the pipe
\* free of requests, or keeps the request at its end.
LEMMA WriteQuiet ==
    ASSUME fromEngine \in Seq(FromEngine), NoRequest(fromEngine),
           NEW m, ~IsRequest(m), Write(m)
    PROVE  NoRequest(fromEngine')
BY NoRequestAppend DEF Write

LEMMA FinalizeQuiet ==
    ASSUME fromEngine \in Seq(FromEngine), NoRequest(fromEngine),
           NEW e \in BOOLEAN, Finalize(e)
    PROVE  NoRequest(fromEngine')
BY WriteQuiet, RequestMessages DEF Finalize

LEMMA ReceivePairing ==
    ASSUME PairInv, NEW T, Receive(T), T \cap RequestKinds = {},
           UNCHANGED <<engineVars, toEngine, sent>>,
           cargo_hax' \in {"loop", "stats", "panicked"}
    PROVE  Pairing'
<1> USE DEF PairInv, TypeInv, TypeOK, PipesTypeOK
<1>1. cargo_hax = "loop" /\ fromEngine # <<>> /\ fromEngine' = Tail(fromEngine)
      /\ ~IsRequest(Head(fromEngine))
  BY DEF Receive, IsRequest
<1>2. NoRequest(fromEngine) => NoRequest(fromEngine')
  BY <1>1, NoRequestTail
<1>3. EndsWithRequest(fromEngine) =>
        /\ EndsWithRequest(fromEngine')
        /\ fromEngine'[Len(fromEngine')] = fromEngine[Len(fromEngine)]
  BY <1>1, RequestTail
<1>4. QED
  BY <1>1, <1>2, <1>3
  DEF Pairing, Quiet, RequestOutstanding, StdoutOpen, engineVars

LEMMA EnginePairing ==
    ASSUME PairInv, Engine \/ Killed
    PROVE  Pairing'
<1> USE DEF PairInv, TypeInv, TypeOK, PipesTypeOK
<1>1. CASE ReadOptions
  <2>1. Len(toEngine') = Len(toEngine) - 1 /\ got' = got + 1 /\ sent' = sent
    BY <1>1 DEF ReadOptions, cargoVars
  <2>2. Len(toEngine) = sent - got /\ NoRequest(fromEngine)
    BY <1>1 DEF ReadOptions, Pairing
  <2>3. got \in Nat /\ sent \in Nat /\ sent <= OptionsChunks
        /\ Len(toEngine) \in Nat /\ Len(toEngine') \in Nat
    <3>1. toEngine' \in Seq(ToEngine)
      BY <1>1 DEF ReadOptions
    <3>2. QED
      BY <3>1, LenProperties DEF EngineTypeOK, CargoTypeOK
  <2>4. Len(toEngine') = sent' - got'
    BY <2>1, <2>2, <2>3
  <2>5. fromEngine' = fromEngine /\ exn' = exn /\ cargo_hax' = cargo_hax
        /\ exn # "mismatch"
    BY <1>1 DEF ReadOptions, cargoVars, Pairing, RequestOutstanding
  <2>6. CASE engine' = "options" \/ engine' = "exited"
    BY <2>2, <2>4, <2>5, <2>6 DEF Pairing, RequestOutstanding
  <2>7. CASE engine' = "leaving"
    <3>1. ~(got' < OptionsChunks)
      BY <1>1, <2>7 DEF ReadOptions
    <3>2. sent = OptionsChunks /\ Len(toEngine') = 0
      BY <2>1, <2>3, <2>4, <3>1
    <3>3. toEngine' = <<>>
      BY <1>1, <3>2, EmptySeq DEF ReadOptions
    <3>4. cargo_hax # "send"
      BY <3>2 DEF CargoControl
    <3>5. QED
      BY <2>2, <2>5, <2>7, <3>3, <3>4 DEF Pairing, Quiet, RequestOutstanding
  <2>8. QED  BY <1>1, <2>6, <2>7 DEF ReadOptions
<1>2. CASE ReadEOF
  BY <1>2 DEF ReadEOF, Pairing, Quiet, RequestOutstanding,
     StdinOpen, StdoutOpen, cargoVars
<1>3. CASE Report
  BY <1>3 DEF Report, Pairing, Quiet, RequestOutstanding,
     StdinOpen, StdoutOpen, cargoVars
<1>4. CASE DeclareItems
  <2>1. NoRequest(fromEngine')
    BY <1>4, WriteQuiet, RequestMessages DEF DeclareItems, Pairing, Quiet
  <2>2. QED
    BY <1>4, <2>1
    DEF DeclareItems, Pairing, Quiet, RequestOutstanding, cargoVars
<1>5. CASE ReceiveAnswer
  BY <1>5 DEF ReceiveAnswer, Pairing, Quiet, RequestOutstanding,
     StdinOpen, StdoutOpen, cargoVars
<1>6. CASE FinishStage
  BY <1>6 DEF FinishStage, Pairing, Quiet, RequestOutstanding,
     StdinOpen, StdoutOpen, cargoVars
<1>7. CASE LeaveStage
  <2>1. NoRequest(fromEngine')
    BY <1>7, FinalizeQuiet DEF LeaveStage, Pairing, Quiet
  <2>2. QED
    BY <1>7, <2>1
    DEF LeaveStage, Pairing, Quiet, RequestOutstanding, cargoVars
<1>8. CASE RaiseFatal
  BY <1>8 DEF RaiseFatal, Pairing, Quiet, RequestOutstanding,
     StdinOpen, StdoutOpen, cargoVars
<1>9. CASE RaiseCrash
  BY <1>9 DEF RaiseCrash, Pairing, Quiet, RequestOutstanding,
     StdinOpen, StdoutOpen, cargoVars
<1>10. CASE Unwind
  <2>1. toEngine' = <<>> /\ cargo_hax' = cargo_hax /\ cargo_hax # "send"
    BY <1>10 DEF Unwind, Pairing, cargoVars
  <2>2. CASE NoRequest(fromEngine)
    <3>1. NoRequest(fromEngine')
      BY <1>10, <2>2, FinalizeQuiet DEF Unwind
    <3>2. QED
      BY <1>10, <2>1, <3>1 DEF Unwind, Pairing, Quiet, RequestOutstanding
  <2>3. CASE ~NoRequest(fromEngine)
    <3>1. exn # "fatal" /\ engine' = "exited" /\ exn' = exn
      BY <1>10, <2>3 DEF Unwind, Pairing
    <3>2. fromEngine' = fromEngine
      BY <1>10, <2>3 DEF Unwind, Pairing, Finalize, Write, RoomFromEngine
    <3>3. QED
      BY <1>10, <2>1, <2>3, <3>1, <3>2 DEF Unwind, Pairing, RequestOutstanding
  <2>4. QED  BY <2>2, <2>3
<1>11. CASE Conclude
  BY <1>11 DEF Conclude, Pairing, Quiet, RequestOutstanding,
     StdinOpen, StdoutOpen, cargoVars
<1>12. CASE Emit
  <2>1. emitted + 1 \in 1 .. Len(Results)
    BY <1>12, ResultsType DEF Emit, EngineControl, EngineTypeOK
  <2>2. NoRequest(fromEngine')
    BY <1>12, <2>1, ResultsNoRequest, WriteQuiet DEF Emit, Pairing, Quiet
  <2>3. QED
    BY <1>12, <2>2 DEF Emit, Pairing, Quiet, RequestOutstanding, cargoVars
<1>13. CASE Close
  BY <1>13 DEF Close, Pairing, Quiet, RequestOutstanding,
     StdinOpen, StdoutOpen, cargoVars
<1>14. CASE BrokenPipe
  BY <1>14 DEF BrokenPipe, Pairing, Quiet, RequestOutstanding,
     StdinOpen, StdoutOpen, cargoVars
<1>15. CASE Killed
  <2>1. CASE UNCHANGED fromEngine
    BY <1>15, <2>1 DEF Killed, EngineAlive, Pairing, Quiet, RequestOutstanding
  <2>2. CASE engine = "emitting" /\ Write(Truncated)
    <3>1. NoRequest(fromEngine')
      BY <2>2, WriteQuiet, RequestMessages DEF Pairing, Quiet
    <3>2. QED
      BY <1>15, <3>1 DEF Killed, Pairing, Quiet, RequestOutstanding
  <2>3. QED  BY <1>15, <2>1, <2>2 DEF Killed
<1>16. ASSUME NEW k \in RequestKinds, Ask(k) PROVE Pairing'
  <2>1. fromEngine' = Append(fromEngine, Request(k))
    BY <1>16 DEF Ask, Write
  <2>2. EndsWithRequest(fromEngine')
        /\ fromEngine'[Len(fromEngine')] = Request(k)
    BY <1>16, <2>1, RequestAppend, RequestMessages DEF Ask, Pairing, Quiet
  <2>3. QED
    BY <1>16, <2>2 DEF Ask, Pairing, Quiet, RequestOutstanding, cargoVars
<1>17. QED
  BY <1>1, <1>2, <1>3, <1>4, <1>5, <1>6, <1>7, <1>8, <1>9, <1>10, <1>11, <1>12, <1>13, <1>14, <1>15, <1>16 DEF Engine

LEMMA CargoPairing ==
    ASSUME PairInv, CargoHax \/ CargoHaxKilled
    PROVE  Pairing'
<1> USE DEF PairInv, TypeInv, TypeOK, PipesTypeOK
<1>1. CASE SendOptions
  <2>1. engine = "options"
    BY <1>1 DEF SendOptions, Pairing, RoomToEngine, EngineAlive
  <2>2. Len(toEngine') = Len(toEngine) + 1 /\ sent' = sent + 1
        /\ UNCHANGED engineVars /\ UNCHANGED fromEngine
    BY <1>1 DEF SendOptions
  <2>3. Len(toEngine) = sent - got /\ NoRequest(fromEngine)
        /\ exn # "mismatch"
    BY <2>1 DEF Pairing, RequestOutstanding
  <2>4. Len(toEngine') = sent' - got'
    <3>1. got' = got
      BY <2>2 DEF engineVars
    <3>2. got \in Nat /\ sent \in Nat
      BY DEF EngineTypeOK, CargoTypeOK
    <3>3. QED  BY <2>2, <2>3, <3>1, <3>2
  <2>5. QED
    BY <2>1, <2>2, <2>3, <2>4 DEF Pairing, RequestOutstanding, engineVars
<1>2. CASE SendFails
  BY <1>2 DEF SendFails, Pairing, Quiet, RequestOutstanding,
     StdinOpen, StdoutOpen, engineVars
<1>3. CASE HandleDiagnostic
  BY <1>3, ReceivePairing DEF HandleDiagnostic, Receive, RequestKinds, cargoVars
<1>4. CASE HandleFile
  BY <1>4, ReceivePairing DEF HandleFile, Receive, RequestKinds, cargoVars
<1>5. CASE HandleDebugString
  BY <1>5, ReceivePairing DEF HandleDebugString, Receive, RequestKinds, cargoVars
<1>6. CASE HandleRequest
  <2>1. /\ cargo_hax = "loop" /\ fromEngine # <<>>
        /\ IsRequest(Head(fromEngine)) /\ engine # "exited"
        /\ fromEngine' = Tail(fromEngine)
        /\ toEngine' = Append(toEngine, AnswerTo[Head(fromEngine).type])
        /\ UNCHANGED cargoVars /\ UNCHANGED engineVars
    BY <1>6 DEF HandleRequest, Receive, IsRequest, RoomToEngine, EngineAlive
  <2>2. ~NoRequest(fromEngine)
    BY <2>1, NoRequestTail
  <2>3. engine = "awaiting" /\ toEngine = <<>> /\ EndsWithRequest(fromEngine)
    BY <2>1, <2>2 DEF Pairing, RequestOutstanding, StdoutOpen
  <2>4. fromEngine' = <<>> /\ Head(fromEngine) = fromEngine[Len(fromEngine)]
    BY <2>1, <2>3, RequestTail
  <2>5. Head(fromEngine).type = awaiting
    <3>1. awaiting \in RequestKinds
      BY <2>3 DEF EngineControl
    <3>2. fromEngine[Len(fromEngine)] = Request(awaiting)
      BY <2>1, <2>3 DEF Pairing, RequestOutstanding, StdoutOpen
    <3>3. QED  BY <2>4, <3>1, <3>2, RequestMessages
  <2>6. toEngine' = <<AnswerTo[awaiting]>>
    BY <2>1, <2>3, <2>5
  <2>7. NoRequest(fromEngine')
    BY <2>4 DEF NoRequest
  <2>8. QED
    BY <2>1, <2>3, <2>6, <2>7 DEF Pairing, RequestOutstanding,
       cargoVars, engineVars
<1>7. CASE HandleProfilingData
  BY <1>7, ReceivePairing DEF HandleProfilingData, Receive, RequestKinds, cargoVars
<1>8. CASE HandleItemProcessed
  BY <1>8, ReceivePairing DEF HandleItemProcessed, Receive, RequestKinds, cargoVars
<1>9. CASE HandleExit
  BY <1>9, ReceivePairing DEF HandleExit, Receive, RequestKinds, cargoVars
<1>10. CASE EndOfOutput
  BY <1>10 DEF EndOfOutput, Pairing, Quiet, RequestOutstanding,
     StdinOpen, StdoutOpen, engineVars
<1>11. CASE HandlerPanics
  <2>1. UNCHANGED <<engineVars, toEngine, sent>> /\ cargo_hax' = "panicked"
        /\ cargo_hax = "loop" /\ fromEngine # <<>>
        /\ fromEngine' = Tail(fromEngine)
    BY <1>11 DEF HandlerPanics, Receive
  <2>2. CASE IsRequest(Head(fromEngine))
    <3>1. engine = "exited"
      BY <1>11, <2>2 DEF HandlerPanics, Receive, EngineAlive, IsRequest, RequestKinds
    <3>2. fromEngine' = <<>>
      BY <2>1, <2>2, NoRequestTail, RequestTail DEF Pairing, RequestOutstanding
    <3>3. NoRequest(fromEngine')
      BY <3>2 DEF NoRequest
    <3>4. QED
      BY <2>1, <3>1, <3>3 DEF Pairing, RequestOutstanding, engineVars
  <2>3. CASE ~IsRequest(Head(fromEngine))
    <3>1. Receive({Head(fromEngine).type})
      BY <2>1 DEF Receive
    <3>2. {Head(fromEngine).type} \cap RequestKinds = {}
      BY <2>3 DEF IsRequest
    <3>3. QED  BY <2>1, <3>1, <3>2, ReceivePairing
  <2>4. QED  BY <2>2, <2>3
<1>12. CASE Stats
  BY <1>12 DEF Stats, Pairing, Quiet, RequestOutstanding,
     StdinOpen, StdoutOpen, engineVars
<1>13. CASE Wait
  BY <1>13 DEF Wait, Pairing, Quiet, RequestOutstanding,
     StdinOpen, StdoutOpen, engineVars
<1>14. CASE CargoHaxKilled
  BY <1>14 DEF CargoHaxKilled, Pairing, Quiet, RequestOutstanding,
     StdinOpen, StdoutOpen, engineVars
<1>15. QED
  BY <1>1, <1>2, <1>3, <1>4, <1>5, <1>6, <1>7, <1>8, <1>9, <1>10, <1>11, <1>12, <1>13, <1>14 DEF CargoHax

\* In every state of every session at most one request is unanswered, it is
\* the last message of the engine, and the answer that comes back is of the
\* kind the engine waits for.
THEOREM RequestsArePaired == Spec => []RequestOutstanding
<1>1. Init => PairInv
  BY InitTypeInv, InitPairing DEF PairInv
<1>2. PairInv /\ [Next]_vars => PairInv'
  <2> SUFFICES ASSUME PairInv, [Next]_vars PROVE PairInv'
    OBVIOUS
  <2>1. TypeInv'
    BY StepTypeInv DEF PairInv
  <2>2. CASE Engine \/ Killed
    BY <2>1, <2>2, EnginePairing DEF PairInv
  <2>3. CASE CargoHax \/ CargoHaxKilled
    BY <2>1, <2>3, CargoPairing DEF PairInv
  <2>4. CASE UNCHANGED vars
    BY <2>1, <2>4 DEF vars, cargoVars, engineVars, PairInv, Pairing, Quiet,
       RequestOutstanding, StdoutOpen
  <2>5. QED  BY <2>2, <2>3, <2>4 DEF Next, Terminated
<1>3. PairInv => RequestOutstanding
  BY DEF PairInv, Pairing
<1>4. QED  BY <1>1, <1>2, <1>3, PTL DEF Spec

-----------------------------------------------------------------------------
(* What is delivered *)

\* How many outputs cargo-hax has acted on.
Handled == Len(reported) + Len(OutputFiles)
               + (IF output.debug_json THEN 1 ELSE 0)

\* They are the first outputs of the engine, in order.
Front ==
    /\ Handled <= emitted /\ emitted <= Len(Results)
    /\ Len(reported) <= Len(state)
    /\ \A i \in 1 .. Len(reported) : reported[i] = state[i]
    /\ Len(OutputFiles) <= Len(files)
    /\ \A i \in 1 .. Len(OutputFiles) : OutputFiles[i] = files[i]
    /\ OutputFiles # <<>> => Len(reported) = Len(state)
    /\ output.debug_json => /\ options.debug
                            /\ Len(reported) = Len(state)
                            /\ Len(OutputFiles) = Len(files)

\* What is remembered twice of them agrees.
Records ==
    /\ error <=> reported # <<>>
    /\ options.dry_run => disk = <<>> /\ output.diagnostics = reported
    /\ ~options.dry_run => output.diagnostics = <<>> /\ output.files = <<>>

ResultTypes == {"Diagnostic", "File", "DebugString", "Exit"}

\* The pipe holds c messages the engine wrote on its way, which are all read
\* before the first output, then the outputs not read yet, then perhaps the
\* beginning of a line that a kill cut short.
InPipe(c) ==
    /\ \/ Len(fromEngine) = c + (emitted - Handled)
       \/ /\ Len(fromEngine) = c + (emitted - Handled) + 1
          /\ engine = "exited" /\ exitCode = -1
          /\ fromEngine[Len(fromEngine)] = Truncated
    /\ \A i \in 1 .. c : fromEngine[i].type \notin ResultTypes \cup {"Truncated"}
    /\ \A j \in 1 .. emitted - Handled :
           fromEngine[c + j] = Results[Handled + j]
    /\ Handled > 0 => c = 0

Pipe == StdoutOpen => \E c \in Nat : InPipe(c)

\* All outputs and `Exit` were written, and cargo-hax acted on all of them.
Complete == emitted = Len(Results) /\ Handled + 1 = emitted

\* How the engine may end, and where that leaves cargo-hax.
EngineEnds ==
    /\ engine = "closing" => emitted = Len(Results)
    /\ emitted > 0 => stage = AfterRun
    /\ exitCode \in {1, 2} => engine = "exited" /\ emitted = 0
    /\ engine = "exited" /\ exitCode = 0 => emitted = Len(Results)

CargoEnds ==
    /\ cargo_hax \in {"stats", "wait"} =>
          Complete \/ (engine = "exited" /\ exitCode # 0)
    /\ cargo_hax = "returned" => Complete

Ends == EngineEnds /\ CargoEnds

\* The owners of the errors are counted.
Counts ==
    /\ CountsAreExact
    /\ \A i \in 1 .. Len(reported) : reported[i].owner # NoOwner =>
           reported[i].owner \in DOMAIN errors_per_item

Delivery == Front /\ Records /\ Pipe

DInv == TypeInv /\ Delivery /\ Ends /\ Counts

-----------------------------------------------------------------------------
(* The sequences of outputs *)

LEMMA HandledType ==
    ASSUME TypeOK
    PROVE  /\ reported \in Seq(Diagnostics) /\ state \in Seq(Diagnostics)
           /\ OutputFiles \in Seq(FileMessages) /\ files \in Seq(FileMessages)
           /\ Len(reported) \in Nat /\ Len(OutputFiles) \in Nat
           /\ Len(state) \in Nat /\ Len(files) \in Nat
           /\ output.debug_json \in BOOLEAN /\ Handled \in Nat
           /\ emitted \in Nat
<1>1. /\ reported \in Seq(Diagnostics) /\ state \in Seq(Diagnostics)
      /\ disk \in Seq(FileMessages) /\ files \in Seq(FileMessages)
      /\ output.files \in Seq(FileMessages) /\ output.debug_json \in BOOLEAN
      /\ emitted \in Nat
  BY DEF TypeOK, CargoTypeOK, EngineTypeOK
<1>2. OutputFiles \in Seq(FileMessages)
  BY <1>1 DEF OutputFiles
<1>3. Len(reported) \in Nat /\ Len(OutputFiles) \in Nat
      /\ Len(state) \in Nat /\ Len(files) \in Nat
  BY <1>1, <1>2, LenProperties
<1> QED
  BY <1>1, <1>2, <1>3 DEF Handled

LEMMA ConcatParts ==
    ASSUME NEW S, NEW p \in Seq(S), NEW q \in Seq(S)
    PROVE  /\ p \o q \in Seq(S) /\ Len(p \o q) = Len(p) + Len(q)
           /\ \A i \in 1 .. Len(p) : (p \o q)[i] = p[i]
           /\ \A i \in 1 .. Len(q) : (p \o q)[Len(p) + i] = q[i]
OBVIOUS

\* Where each output is in what `main` writes at the end.
LEMMA ResultsParts ==
    ASSUME TypeOK
    PROVE  /\ Len(Results) = Len(state) + Len(files)
                                 + (IF options.debug THEN 1 ELSE 0) + 1
           /\ \A i \in 1 .. Len(state) : Results[i] = state[i]
           /\ \A i \in 1 .. Len(files) : Results[Len(state) + i] = files[i]
           /\ options.debug =>
                  Results[Len(state) + Len(files) + 1] = DebugString
           /\ Results[Len(Results)] = Exit
<1> DEFINE dbg == IF options.debug THEN <<DebugString>> ELSE <<>>
           n   == IF options.debug THEN 1 ELSE 0
<1>1. state \in Seq(FromEngine) /\ files \in Seq(FromEngine)
  BY HandledType, MessageTypes
<1>2. dbg \in Seq(FromEngine) /\ <<Exit>> \in Seq(FromEngine)
  BY MessageTypes
<1>3. /\ Len(dbg) = n /\ n \in {0, 1} /\ (options.debug => dbg[1] = DebugString)
      /\ Len(<<Exit>>) = 1 /\ <<Exit>>[1] = Exit
  OBVIOUS
<1>4. options.debug => n = 1
  OBVIOUS
<1>5. Results = state \o files \o dbg \o <<Exit>>
  BY DEF Results
<1> HIDE DEF dbg
<1> DEFINE a == state \o files
           b == a \o dbg
           c == b \o <<Exit>>
<1>6. /\ a \in Seq(FromEngine) /\ Len(a) = Len(state) + Len(files)
      /\ \A i \in 1 .. Len(state) : a[i] = state[i]
      /\ \A i \in 1 .. Len(files) : a[Len(state) + i] = files[i]
  BY <1>1
<1> HIDE DEF a
<1>7. /\ b \in Seq(FromEngine) /\ Len(b) = Len(a) + n
      /\ \A i \in 1 .. Len(a) : b[i] = a[i]
      /\ options.debug => b[Len(a) + 1] = DebugString
  <2>3. a \in Seq(FromEngine) /\ dbg \in Seq(FromEngine)
    BY <1>2, <1>6
  <2>1. /\ b \in Seq(FromEngine) /\ Len(b) = Len(a) + Len(dbg)
        /\ \A i \in 1 .. Len(a) : b[i] = a[i]
        /\ \A i \in 1 .. Len(dbg) : b[Len(a) + i] = dbg[i]
    BY ONLY <2>3, ConcatParts
  <2>2. options.debug => 1 \in 1 .. Len(dbg)
    BY <1>3, <1>4
  <2> QED
    BY <1>3, <2>1, <2>2
<1> HIDE DEF b
<1>8. /\ Len(c) = Len(b) + 1
      /\ \A i \in 1 .. Len(b) : c[i] = b[i]
      /\ c[Len(c)] = Exit
  BY <1>2, <1>3, <1>7
<1> HIDE DEF c
<1>9. Results = c
  BY <1>5 DEF a, b, c
<1>10. Len(state) \in Nat /\ Len(files) \in Nat
  BY HandledType
<1>11. Len(Results) = Len(state) + Len(files) + n + 1
  BY <1>6, <1>7, <1>8, <1>9, <1>10
<1>12. \A i \in 1 .. Len(state) : Results[i] = state[i]
  BY <1>3, <1>6, <1>7, <1>8, <1>9, <1>10
<1>13. \A i \in 1 .. Len(files) : Results[Len(state) + i] = files[i]
  BY <1>3, <1>6, <1>7, <1>8, <1>9, <1>10, SMTT(20)
<1>14. options.debug => Results[Len(state) + Len(files) + 1] = DebugString
  BY <1>4, <1>6, <1>7, <1>8, <1>9, <1>10
<1> QED
  BY <1>8, <1>9, <1>11, <1>12, <1>13, <1>14

\* The results do not change once the engine has started to write them.
LEMMA ResultsStable ==
    ASSUME UNCHANGED <<options, state, files>>
    PROVE  Results' = Results
BY DEF Results

\* What follows what has been handled.
LEMMA NextOutput ==
    ASSUME TypeOK, Front, Handled < emitted, NEW m, m = Results[Handled + 1]
    PROVE  /\ m.type \in ResultTypes
           /\ m.type = "Diagnostic" =>
                  /\ Len(reported) < Len(state)
                  /\ m = state[Len(reported) + 1]
                  /\ Len(OutputFiles) = 0 /\ ~output.debug_json
           /\ m.type = "File" =>
                  /\ Len(reported) = Len(state)
                  /\ Len(OutputFiles) < Len(files)
                  /\ m = files[Len(OutputFiles) + 1]
                  /\ ~output.debug_json
           /\ m.type = "DebugString" =>
                  /\ Len(reported) = Len(state)
                  /\ Len(OutputFiles) = Len(files)
                  /\ options.debug /\ ~output.debug_json
           /\ m.type = "Exit" =>
                  Handled + 1 = Len(Results) /\ emitted = Len(Results)
<1> DEFINE r == Len(reported)  s == Len(state)
           o == Len(OutputFiles)  f == Len(files)
<1>1. /\ r \in Nat /\ s \in Nat /\ o \in Nat /\ f \in Nat /\ emitted \in Nat
      /\ state \in Seq(Diagnostics) /\ files \in Seq(FileMessages)
      /\ OutputFiles \in Seq(FileMessages)
  BY HandledType
<1>2. Handled = r + o + (IF output.debug_json THEN 1 ELSE 0)
  BY DEF Handled
<1>3. r <= s /\ o <= f /\ Handled < Len(Results) /\ emitted <= Len(Results)
      /\ (output.debug_json => options.debug /\ r = s /\ o = f)
      /\ (o # 0 => r = s)
  <2>1. o # 0 => OutputFiles # <<>>
    BY <1>1
  <2> QED
    BY <1>1, <2>1, ResultsParts, HandledType DEF Front
<1>4. CASE r < s
  <2>1. Handled + 1 = r + 1 /\ o = 0 /\ ~output.debug_json
    BY <1>1, <1>2, <1>3, <1>4
  <2>2. m = state[r + 1]
    BY <1>1, <1>4, <2>1, ResultsParts
  <2>3. state[r + 1] \in Diagnostics
    BY <1>1, <1>4
  <2>4. m.type = "Diagnostic"
    BY <2>2, <2>3 DEF Diagnostics
  <2> QED
    BY <1>4, <2>1, <2>2, <2>4 DEF ResultTypes
<1>5. CASE r = s /\ o < f
  <2>1. Handled + 1 = s + (o + 1) /\ ~output.debug_json
    BY <1>1, <1>2, <1>3, <1>5
  <2>2. m = files[o + 1]
    BY <1>1, <1>5, <2>1, ResultsParts
  <2>3. files[o + 1] \in FileMessages
    BY <1>1, <1>5
  <2>4. m.type = "File"
    BY <2>2, <2>3 DEF FileMessages
  <2> QED
    BY <1>5, <2>1, <2>2, <2>4 DEF ResultTypes
<1>6. CASE r = s /\ o = f /\ options.debug /\ ~output.debug_json
  <2>1. Handled + 1 = s + f + 1
    BY <1>1, <1>2, <1>6
  <2>2. m = DebugString
    BY <1>6, <2>1, ResultsParts
  <2>3. m.type = "DebugString"
    BY <2>2 DEF DebugString
  <2> QED
    BY <1>6, <2>3 DEF ResultTypes
<1>7. CASE r = s /\ o = f /\ (options.debug => output.debug_json)
  <2>1. Handled + 1 = Len(Results)
    BY <1>1, <1>2, <1>3, <1>7, ResultsParts
  <2>2. m = Exit
    BY <2>1, ResultsParts
  <2>3. m.type = "Exit"
    BY <2>2 DEF Exit
  <2>4. emitted = Len(Results)
    BY <1>1, <1>3, <2>1, HandledType
  <2> QED
    BY <2>1, <2>3, <2>4 DEF ResultTypes
<1> QED
  BY <1>1, <1>3, <1>4, <1>5, <1>6, <1>7

-----------------------------------------------------------------------------
(* The engine *)

LEMMA LenConcat ==
    ASSUME NEW S, NEW p \in Seq(S), NEW q \in Seq(S), NEW r \in Seq(S),
           NEW t \in Seq(S)
    PROVE  Len(p \o q \o r \o t) \in Nat
OBVIOUS

LEMMA NextResultsType ==
    ASSUME TypeOK', UNCHANGED options
    PROVE  Len(Results') \in Nat
<1> DEFINE dbg == IF options.debug THEN <<DebugString>> ELSE <<>>
<1>1. state' \in Seq(Diagnostics) /\ files' \in Seq(FileMessages)
  BY DEF TypeOK, EngineTypeOK
<1>2. state' \in Seq(FromEngine) /\ files' \in Seq(FromEngine)
  BY <1>1, MessageTypes
<1>3. dbg \in Seq(FromEngine) /\ <<Exit>> \in Seq(FromEngine)
  BY MessageTypes
<1>4. Results' = state' \o files' \o dbg \o <<Exit>>
  BY DEF Results, Exit, DebugString
<1> HIDE DEF dbg
<1> QED
  BY <1>2, <1>3, <1>4, LenConcat

\* What cargo-hax has done does not change while the engine acts.
LEMMA CargoIdle ==
    ASSUME UNCHANGED <<options, cargoVars>>
    PROVE  /\ Handled' = Handled /\ OutputFiles' = OutputFiles
           /\ reported' = reported /\ output' = output
           /\ StdoutOpen' = StdoutOpen
           /\ Records => Records'
           /\ Counts => Counts'
<1>1. UNCHANGED <<options, cargo_hax, error, reported, disk, output,
                  errors_per_item>>
  BY DEF cargoVars
<1> QED
  BY <1>1 DEF Handled, OutputFiles, StdoutOpen, Records, Counts, CountsAreExact

\* Before the results are written nothing was handled, and the pipe only
\* holds messages about the work of the engine.
LEMMA EarlyDelivery ==
    ASSUME DInv, TypeInv', emitted = 0, emitted' = 0, engine # "exited",
           UNCHANGED <<options, cargoVars>>,
           \/ UNCHANGED fromEngine
           \/ \E m : /\ m.type \notin ResultTypes \cup {"Truncated"}
                     /\ fromEngine' = Append(fromEngine, m)
    PROVE  Delivery' /\ Counts'
<1>1. /\ Handled = 0 /\ Len(reported) = 0 /\ Len(OutputFiles) = 0
      /\ ~output.debug_json /\ OutputFiles = <<>>
  <2>1. Handled = 0
    BY HandledType DEF DInv, Delivery, TypeInv, Front
  <2>2. Len(reported) = 0 /\ Len(OutputFiles) = 0 /\ ~output.debug_json
    BY <2>1, HandledType DEF DInv, TypeInv, Handled
  <2> QED
    BY <2>1, <2>2, HandledType, EmptySeq DEF DInv, TypeInv
<1>2. Len(Results') \in Nat /\ Len(state') \in Nat /\ Len(files') \in Nat
  <2>1. state' \in Seq(Diagnostics) /\ files' \in Seq(FileMessages)
    BY DEF TypeInv, TypeOK, EngineTypeOK
  <2> QED
    BY <2>1, NextResultsType, LenProperties DEF TypeInv
<1>3. Front'
  BY <1>1, <1>2, CargoIdle DEF Front
<1>4. ASSUME StdoutOpen' PROVE \E c \in Nat : InPipe(c)'
  <2>1. PICK c \in Nat : InPipe(c)
    BY <1>4, CargoIdle DEF DInv, Delivery, Pipe
  <2>2. Len(fromEngine) = c /\ fromEngine \in Seq(FromEngine)
        /\ \A i \in 1 .. c : fromEngine[i].type \notin ResultTypes \cup {"Truncated"}
    BY <1>1, <2>1 DEF InPipe, DInv, TypeInv, TypeOK, PipesTypeOK
  <2>3. CASE UNCHANGED fromEngine
    <3>1. InPipe(c)'
      BY <1>1, <2>2, <2>3, CargoIdle DEF InPipe
    <3> QED  BY <3>1
  <2>4. CASE \E m : /\ m.type \notin ResultTypes \cup {"Truncated"}
                    /\ fromEngine' = Append(fromEngine, m)
    <3>1. /\ Len(fromEngine') = c + 1
          /\ \A i \in 1 .. c + 1 :
                fromEngine'[i].type \notin ResultTypes \cup {"Truncated"}
      BY <2>2, <2>4
    <3>2. InPipe(c + 1)'
      BY <1>1, <3>1, CargoIdle DEF InPipe
    <3> QED  BY <3>2
  <2> QED  BY <2>3, <2>4
<1> QED
  BY <1>3, <1>4, CargoIdle DEF DInv, Delivery, Pipe

\* A step that writes nothing, and changes no result.
LEMMA LateDelivery ==
    ASSUME DInv, engine # "exited",
           UNCHANGED <<options, cargoVars, state, files, emitted, fromEngine>>
    PROVE  Delivery' /\ Counts'
<1>1. Front'
  BY ResultsStable, CargoIdle DEF DInv, Delivery, Front
<1>2. ASSUME StdoutOpen' PROVE \E c \in Nat : InPipe(c)'
  <2>1. PICK c \in Nat : InPipe(c)
    BY <1>2, CargoIdle DEF DInv, Delivery, Pipe
  <2>2. InPipe(c)'
    BY <2>1, CargoIdle, ResultsStable DEF InPipe
  <2> QED  BY <2>2
<1> QED
  BY <1>1, <1>2, CargoIdle DEF DInv, Delivery, Pipe

LEMMA AppendParts ==
    ASSUME NEW S, NEW q \in Seq(S), NEW m
    PROVE  /\ Len(Append(q, m)) = Len(q) + 1
           /\ Append(q, m)[Len(q) + 1] = m
           /\ \A i \in 1 .. Len(q) : Append(q, m)[i] = q[i]
OBVIOUS

LEMMA EmitDelivery ==
    ASSUME DInv, TypeInv', Emit
    PROVE  Delivery' /\ Counts'
<1> USE DEF Emit, Write
<1>0. UNCHANGED <<options, cargoVars, state, files>>
  OBVIOUS
<1>1. Results' = Results /\ Handled' = Handled /\ emitted' = emitted + 1
  BY <1>0, ResultsStable, CargoIdle
<1>2. emitted < Len(Results) /\ emitted \in Nat /\ Len(Results) \in Nat
      /\ Handled \in Nat /\ Handled <= emitted
  BY HandledType, ResultsType
     DEF DInv, TypeInv, EngineControl, Delivery, Front
<1>3. Front'
  BY <1>0, <1>1, <1>2, CargoIdle DEF DInv, Delivery, Front
<1>4. PICK c \in Nat : InPipe(c)
  BY DEF DInv, Delivery, Pipe, RoomFromEngine
<1> DEFINE u == emitted - Handled
<1>5. /\ Len(fromEngine) = c + u /\ u \in Nat /\ fromEngine \in Seq(FromEngine)
      /\ \A i \in 1 .. c : fromEngine[i].type \notin ResultTypes \cup {"Truncated"}
      /\ \A j \in 1 .. u : fromEngine[c + j] = Results[Handled + j]
      /\ Handled > 0 => c = 0
  BY <1>2, <1>4 DEF InPipe, DInv, TypeInv, TypeOK, PipesTypeOK
<1>6. /\ fromEngine' = Append(fromEngine, Results[emitted + 1])
      /\ Len(fromEngine') = c + u + 1
      /\ fromEngine'[c + u + 1] = Results[emitted + 1]
      /\ \A i \in 1 .. c + u : fromEngine'[i] = fromEngine[i]
  <2>1. fromEngine' = Append(fromEngine, Results[emitted + 1])
    OBVIOUS
  <2> HIDE DEF Emit, Write, u
  <2> QED
    BY <1>5, <2>1, AppendParts
<1>7. emitted' - Handled' = u + 1
  BY <1>1, <1>2
<1>8. \A i \in 1 .. c : fromEngine'[i].type \notin ResultTypes \cup {"Truncated"}
  BY <1>5, <1>6
<1>9. ASSUME NEW j \in 1 .. u + 1
      PROVE  fromEngine'[c + j] = Results[Handled + j]
  <2>1. CASE j = u + 1
    <3>1. c + j = c + u + 1 /\ Handled + j = emitted + 1
      BY <1>2, <1>5, <2>1
    <3> QED  BY <1>6, <3>1
  <2>2. CASE j # u + 1
    <3>1. j \in 1 .. u /\ c + j \in 1 .. c + u
      BY <1>5, <2>2
    <3> QED  BY <1>5, <1>6, <3>1
  <2> QED  BY <2>1, <2>2
<1>10. InPipe(c)'
  BY <1>1, <1>5, <1>6, <1>7, <1>8, <1>9 DEF InPipe
<1> QED
  BY <1>0, <1>3, <1>10, CargoIdle DEF DInv, Delivery, Pipe

\* A kill in the middle of a line.
LEMMA CutDelivery ==
    ASSUME DInv, engine # "exited", engine' = "exited", exitCode' = -1,
           UNCHANGED <<options, cargoVars, state, files, emitted>>,
           Write(Truncated)
    PROVE  Delivery' /\ Counts'
<1> USE DEF Write
<1>1. Results' = Results /\ Handled' = Handled
      /\ Handled \in Nat /\ emitted \in Nat /\ Handled <= emitted
  BY ResultsStable, CargoIdle, HandledType DEF DInv, TypeInv, Delivery, Front
<1>2. Front'
  BY <1>1, CargoIdle DEF DInv, Delivery, Front
<1>3. PICK c \in Nat : InPipe(c)
  BY DEF DInv, Delivery, Pipe, RoomFromEngine
<1> DEFINE u == emitted - Handled
<1>4. /\ Len(fromEngine) = c + u /\ u \in Nat /\ fromEngine \in Seq(FromEngine)
      /\ \A i \in 1 .. c : fromEngine[i].type \notin ResultTypes \cup {"Truncated"}
      /\ \A j \in 1 .. u : fromEngine[c + j] = Results[Handled + j]
      /\ Handled > 0 => c = 0
  BY <1>1, <1>3 DEF InPipe, DInv, TypeInv, TypeOK, PipesTypeOK
<1>5. /\ Len(fromEngine') = c + u + 1 /\ fromEngine'[c + u + 1] = Truncated
      /\ \A i \in 1 .. c + u : fromEngine'[i] = fromEngine[i]
  BY <1>4
<1>6. /\ \A i \in 1 .. c : i \in 1 .. c + u
      /\ \A j \in 1 .. u : c + j \in 1 .. c + u
  BY <1>4
<1>7. InPipe(c)'
  BY <1>1, <1>4, <1>5, <1>6 DEF InPipe
<1> QED
  BY <1>2, <1>7, CargoIdle DEF DInv, Delivery, Pipe

\* Messages about the work of the engine are not outputs.
LEMMA WorkMessages ==
    /\ \A k \in RequestKinds : Request(k).type \notin ResultTypes \cup {"Truncated"}
    /\ \A e \in BOOLEAN : Profile(e).type \notin ResultTypes \cup {"Truncated"}
    /\ \A S \in SUBSET Owners : Items(S).type \notin ResultTypes \cup {"Truncated"}
BY DEF RequestKinds, Request, Profile, Items, ResultTypes

\* A step of the engine before the results.
LEMMA EarlyStep ==
    ASSUME DInv, TypeInv', emitted = 0, emitted' = 0,
           engine \notin {"exited", "closing"}, engine' # "closing",
           \/ engine' # "exited" /\ exitCode' = exitCode
           \/ engine' = "exited" /\ exitCode' # 0,
           UNCHANGED <<options, cargoVars>>,
           \/ UNCHANGED fromEngine
           \/ \E m : /\ m.type \notin ResultTypes \cup {"Truncated"}
                     /\ fromEngine' = Append(fromEngine, m)
    PROVE  Delivery' /\ Counts' /\ Ends'
<1>1. Delivery' /\ Counts'
  BY EarlyDelivery
<1>2. EngineEnds'
  BY DEF DInv, Ends, EngineEnds
<1>3. ~Complete
  BY ResultsType DEF DInv, TypeInv, Complete
<1>4. CargoEnds'
  BY <1>3 DEF DInv, Ends, CargoEnds, cargoVars
<1> QED
  BY <1>1, <1>2, <1>4 DEF Ends

\* A step of the engine that leaves the results alone.
LEMMA LateStep ==
    ASSUME DInv, Delivery' /\ Counts', engine # "exited",
           UNCHANGED <<options, cargoVars, state, files, emitted>>,
           EngineEnds'
    PROVE  Delivery' /\ Counts' /\ Ends'
<1>1. Complete' = Complete
  BY ResultsStable, CargoIdle DEF Complete
<1>2. CargoEnds'
  BY <1>1 DEF DInv, Ends, CargoEnds, cargoVars
<1> QED
  BY <1>2 DEF Ends

LEMMA FinalizeMessage ==
    ASSUME NEW e \in BOOLEAN, Finalize(e)
    PROVE  \/ UNCHANGED fromEngine
           \/ \E m : /\ m.type \notin ResultTypes \cup {"Truncated"}
                     /\ fromEngine' = Append(fromEngine, m)
<1>1. CASE profiling
  <2>1. fromEngine' = Append(fromEngine, Profile(e))
    BY <1>1 DEF Finalize, Write
  <2> QED  BY <2>1, WorkMessages
<1>2. CASE ~profiling
  BY <1>2 DEF Finalize
<1> QED  BY <1>1, <1>2

LEMMA EngineStep ==
    ASSUME DInv, TypeInv', Engine \/ Killed
    PROVE  Delivery' /\ Counts' /\ Ends'
<1>0. engine \in {"options", "working", "awaiting", "leaving", "raising"} =>
          emitted = 0
  BY DEF DInv, TypeInv, EngineControl
<1>1. CASE ReadOptions
  BY <1>0, <1>1, EarlyStep DEF ReadOptions
<1>2. CASE ReadEOF
  BY <1>0, <1>2, EarlyStep DEF ReadEOF
<1>3. CASE Report
  BY <1>0, <1>3, EarlyStep DEF Report
<1>4. CASE DeclareItems
  <2>1. \E m : /\ m.type \notin ResultTypes \cup {"Truncated"}
               /\ fromEngine' = Append(fromEngine, m)
    BY <1>4, WorkMessages DEF DeclareItems, Write
  <2> QED  BY <1>0, <1>4, <2>1, EarlyStep DEF DeclareItems
<1>5. ASSUME NEW k \in RequestKinds, Ask(k) PROVE Delivery' /\ Counts' /\ Ends'
  <2>1. \E m : /\ m.type \notin ResultTypes \cup {"Truncated"}
               /\ fromEngine' = Append(fromEngine, m)
    BY <1>5, WorkMessages DEF Ask, Write
  <2> QED  BY <1>0, <1>5, <2>1, EarlyStep DEF Ask
<1>6. CASE ReceiveAnswer
  BY <1>0, <1>6, EarlyStep DEF ReceiveAnswer
<1>7. CASE FinishStage
  BY <1>0, <1>7, EarlyStep DEF FinishStage
<1>8. CASE LeaveStage
  BY <1>0, <1>8, EarlyStep, FinalizeMessage DEF LeaveStage
<1>9. CASE RaiseFatal
  BY <1>0, <1>9, EarlyStep DEF RaiseFatal
<1>10. CASE RaiseCrash
  BY <1>0, <1>10, EarlyStep DEF RaiseCrash
<1>11. CASE Unwind
  <2>1. \/ UNCHANGED fromEngine
        \/ \E m : /\ m.type \notin ResultTypes \cup {"Truncated"}
                  /\ fromEngine' = Append(fromEngine, m)
    BY <1>11, FinalizeMessage DEF Unwind
  <2> QED  BY <1>0, <1>11, <2>1, EarlyStep DEF Unwind
<1>12. CASE Conclude
  BY <1>0, <1>12, EarlyStep DEF Conclude
<1>13. CASE Emit
  <2>1. Delivery' /\ Counts'
    BY <1>13, EmitDelivery
  <2>2. UNCHANGED <<options, state, files, stage, exitCode>> /\ engine = "emitting"
        /\ emitted' = emitted + 1
        /\ engine' = IF emitted' = Len(Results) THEN "closing" ELSE "emitting"
    BY <1>13 DEF Emit
  <2>3. stage = AfterRun /\ exitCode \notin {1, 2}
    BY <2>2 DEF DInv, TypeInv, EngineControl, Ends, EngineEnds
  <2>4. EngineEnds'
    BY <2>2, <2>3, ResultsStable DEF EngineEnds, AfterRun
  <2>5. cargo_hax \in {"send", "loop"} /\ cargo_hax' = cargo_hax
    BY <1>13 DEF Emit, Write, RoomFromEngine, StdoutOpen, cargoVars
  <2> QED
    BY <2>1, <2>4, <2>5 DEF Ends, CargoEnds
<1>14. CASE Close
  <2>1. EngineEnds'
    BY <1>14, ResultsStable DEF Close, DInv, Ends, EngineEnds, AfterRun
  <2> QED
    BY <1>14, <2>1, LateDelivery, LateStep DEF Close
<1>15. CASE BrokenPipe
  <2>1. engine # "exited"
    BY <1>15 DEF BrokenPipe
  <2>2. EngineEnds'
    BY <1>15, ResultsStable DEF BrokenPipe, DInv, Ends, EngineEnds, AfterRun
  <2> QED
    BY <1>15, <2>1, <2>2, LateDelivery, LateStep DEF BrokenPipe
<1>16. CASE Killed
  <2>1. engine # "exited"
    BY <1>16 DEF Killed, EngineAlive
  <2>2. EngineEnds'
    BY <1>16, ResultsStable DEF Killed, DInv, Ends, EngineEnds, AfterRun
  <2>3. Delivery' /\ Counts'
    <3>1. CASE UNCHANGED fromEngine
      BY <1>16, <2>1, <3>1, LateDelivery DEF Killed
    <3>2. CASE Write(Truncated)
      BY <1>16, <2>1, <3>2, CutDelivery DEF Killed
    <3> QED  BY <1>16, <3>1, <3>2 DEF Killed
  <2> QED
    BY <1>16, <2>1, <2>2, <2>3, LateStep DEF Killed
<1> QED
  BY <1>1, <1>2, <1>3, <1>4, <1>5, <1>6, <1>7, <1>8, <1>9, <1>10, <1>11,
     <1>12, <1>13, <1>14, <1>15, <1>16 DEF Engine

-----------------------------------------------------------------------------
(* cargo-hax *)

\* The first message of the pipe, with c messages before the first output.
LEMMA FirstMessage ==
    ASSUME DInv, fromEngine # <<>>, NEW c \in Nat, InPipe(c)
    PROVE  \/ /\ Head(fromEngine).type \notin ResultTypes \cup {"Truncated"}
              /\ c > 0 /\ Handled = 0
           \/ /\ Head(fromEngine).type \in ResultTypes
              /\ Head(fromEngine) = Results[Handled + 1]
              /\ c = 0 /\ Handled < emitted
           \/ Head(fromEngine).type = "Truncated"
<1>1. fromEngine \in Seq(FromEngine) /\ Len(fromEngine) \in Nat
      /\ Len(fromEngine) > 0 /\ Head(fromEngine) = fromEngine[1]
  BY EmptySeq DEF DInv, TypeInv, TypeOK, PipesTypeOK
<1>2. Handled \in Nat /\ emitted \in Nat /\ Handled <= emitted
  BY HandledType DEF DInv, TypeInv, Delivery, Front
<1>3. CASE c > 0
  <2>1. fromEngine[1].type \notin ResultTypes \cup {"Truncated"}
    BY <1>3 DEF InPipe
  <2>2. Handled = 0
    BY <1>2, <1>3 DEF InPipe
  <2> QED  BY <1>1, <1>3, <2>1, <2>2
<1>4. CASE c = 0 /\ Handled < emitted
  <2>1. fromEngine[1] = Results[Handled + 1]
    <3>1. 1 \in 1 .. emitted - Handled
      BY <1>2, <1>4
    <3>2. fromEngine[c + 1] = Results[Handled + 1]
      BY <3>1 DEF InPipe
    <3> QED  BY <1>4, <3>2
  <2>2. Results[Handled + 1].type \in ResultTypes
    BY <1>4, NextOutput DEF DInv, TypeInv, Delivery
  <2> QED  BY <1>1, <1>4, <2>1, <2>2
<1>5. CASE c = 0 /\ Handled = emitted
  <2>1. Len(fromEngine) = 1 /\ fromEngine[Len(fromEngine)] = Truncated
    BY <1>1, <1>2, <1>5 DEF InPipe
  <2> QED  BY <1>1, <2>1 DEF Truncated
<1> QED  BY <1>2, <1>3, <1>4, <1>5

\* An output that is received is the next one.
LEMMA OutputReceived ==
    ASSUME DInv, NEW T, Receive(T), T \subseteq ResultTypes
    PROVE  Head(fromEngine) = Results[Handled + 1] /\ Handled < emitted
<1>1. PICK c \in Nat : InPipe(c)
  BY DEF DInv, Delivery, Pipe, StdoutOpen, Receive
<1> QED
  BY <1>1, FirstMessage DEF Receive, ResultTypes

\* Any other message comes before the first output.
LEMMA WorkReceived ==
    ASSUME DInv, NEW T, Receive(T),
           T \cap (ResultTypes \cup {"Truncated"}) = {}
    PROVE  Handled = 0
<1>1. PICK c \in Nat : InPipe(c)
  BY DEF DInv, Delivery, Pipe, StdoutOpen, Receive
<1> QED
  BY <1>1, FirstMessage DEF Receive

\* The pipe once its first message was received and acted on.
LEMMA PipeAdvances ==
    ASSUME DInv, NEW T, Receive(T), "Truncated" \notin T,
           UNCHANGED <<options, engineVars>>,
           \/ T \cap ResultTypes = {} /\ Handled' = Handled
           \/ T \subseteq ResultTypes /\ Handled' = Handled + 1
    PROVE  Pipe'
<1>1. PICK c \in Nat : InPipe(c)
  BY DEF DInv, Delivery, Pipe, StdoutOpen, Receive
<1>2. /\ fromEngine \in Seq(FromEngine) /\ fromEngine # <<>>
      /\ fromEngine' = Tail(fromEngine) /\ Head(fromEngine).type \in T
      /\ Handled \in Nat /\ emitted \in Nat /\ Handled <= emitted
  BY HandledType
     DEF Receive, DInv, TypeInv, TypeOK, PipesTypeOK, Delivery, Front
<1>3. /\ Len(fromEngine) \in Nat /\ Len(fromEngine') = Len(fromEngine) - 1
      /\ \A i \in 1 .. Len(fromEngine') : fromEngine'[i] = fromEngine[i + 1]
  BY <1>2
<1>4. Results' = Results /\ engine' = engine /\ exitCode' = exitCode
      /\ emitted' = emitted
  BY ResultsStable DEF engineVars
<1> DEFINE u == emitted - Handled
           n == Len(fromEngine)
<1>5. /\ \/ n = c + u
         \/ /\ n = c + u + 1 /\ engine = "exited" /\ exitCode = -1
            /\ fromEngine[n] = Truncated
      /\ \A i \in 1 .. c : fromEngine[i].type \notin ResultTypes \cup {"Truncated"}
      /\ \A j \in 1 .. u : fromEngine[c + j] = Results[Handled + j]
      /\ Handled > 0 => c = 0
  BY <1>1 DEF InPipe
<1>6. u \in Nat
  BY <1>2
<1>7. CASE T \cap ResultTypes = {} /\ Handled' = Handled
  <2>1. c > 0 /\ Handled = 0
    BY <1>1, <1>2, <1>7, FirstMessage
  <2>2. \A i \in 1 .. c - 1 :
            fromEngine'[i].type \notin ResultTypes \cup {"Truncated"}
    <3> TAKE i \in 1 .. c - 1
    <3>1. i + 1 \in 1 .. c /\ i \in 1 .. Len(fromEngine')
      BY <1>3, <1>5, <1>6, <2>1
    <3> QED  BY <1>3, <1>5, <3>1
  <2>3. \A j \in 1 .. u : fromEngine'[c - 1 + j] = Results[Handled + j]
    <3> TAKE j \in 1 .. u
    <3>1. c - 1 + j \in 1 .. Len(fromEngine') /\ c - 1 + j + 1 = c + j
      BY <1>3, <1>5, <1>6, <2>1
    <3> QED  BY <1>3, <1>5, <3>1
  <2>4. \/ Len(fromEngine') = c - 1 + u
        \/ /\ Len(fromEngine') = c - 1 + u + 1 /\ engine = "exited"
           /\ exitCode = -1 /\ fromEngine'[Len(fromEngine')] = Truncated
    <3>1. CASE n = c + u
      BY <1>3, <1>6, <3>1
    <3>2. CASE /\ n = c + u + 1 /\ engine = "exited" /\ exitCode = -1
               /\ fromEngine[n] = Truncated
      <4>1. n - 1 \in 1 .. Len(fromEngine') /\ n - 1 + 1 = n
        BY <1>3, <1>6, <2>1, <3>2
      <4> QED  BY <1>3, <1>6, <3>2, <4>1
    <3> QED  BY <1>5, <3>1, <3>2
  <2>5. InPipe(c - 1)'
    BY <1>4, <1>7, <2>1, <2>2, <2>3, <2>4 DEF InPipe
  <2>6. c - 1 \in Nat
    BY <2>1
  <2> QED  BY <2>5, <2>6 DEF Pipe
<1>8. CASE T \subseteq ResultTypes /\ Handled' = Handled + 1
  <2>1. c = 0 /\ Handled < emitted
    BY <1>1, <1>2, <1>8, FirstMessage
  <2>2. emitted' - Handled' = u - 1 /\ u - 1 \in Nat
    BY <1>2, <1>4, <1>8, <2>1
  <2>3. \A j \in 1 .. u - 1 : fromEngine'[0 + j] = Results[Handled + 1 + j]
    <3> TAKE j \in 1 .. u - 1
    <3>1. j \in 1 .. Len(fromEngine') /\ j + 1 \in 1 .. u
          /\ Handled + (j + 1) = Handled + 1 + j
      BY <1>2, <1>3, <1>5, <1>6, <2>1
    <3>2. fromEngine[0 + (j + 1)] = Results[Handled + (j + 1)]
      BY <1>5, <2>1, <3>1
    <3> QED  BY <1>3, <3>1, <3>2
  <2>4. \/ Len(fromEngine') = 0 + (u - 1)
        \/ /\ Len(fromEngine') = 0 + (u - 1) + 1 /\ engine = "exited"
           /\ exitCode = -1 /\ fromEngine'[Len(fromEngine')] = Truncated
    <3>1. CASE n = c + u
      BY <1>3, <1>6, <2>1, <3>1
    <3>2. CASE /\ n = c + u + 1 /\ engine = "exited" /\ exitCode = -1
               /\ fromEngine[n] = Truncated
      <4>1. n - 1 \in 1 .. Len(fromEngine') /\ n - 1 + 1 = n
        <5>1. u >= 1 /\ n = u + 1
          BY <1>2, <1>6, <2>1, <3>2
        <5> QED  BY <1>3, <1>6, <5>1
      <4> QED  BY <1>3, <1>6, <2>1, <3>2, <4>1
    <3> QED  BY <1>5, <3>1, <3>2
  <2>5. InPipe(0)'
    BY <1>4, <1>8, <2>2, <2>3, <2>4 DEF InPipe
  <2> QED  BY <2>5 DEF Pipe
<1> QED  BY <1>7, <1>8

\* An action of cargo-hax that handles no message.
LEMMA CargoStill ==
    ASSUME DInv, UNCHANGED <<options, error, reported, disk, output,
                             errors_per_item, engineVars, fromEngine>>,
           StdoutOpen' => StdoutOpen
    PROVE  /\ Delivery' /\ Counts' /\ EngineEnds'
           /\ Complete' = Complete
<1>1. Results' = Results /\ Handled' = Handled /\ OutputFiles' = OutputFiles
  BY ResultsStable DEF engineVars, Handled, OutputFiles
<1>2. Front' /\ Records'
  BY <1>1 DEF DInv, Delivery, Front, Records, engineVars
<1>3. Pipe'
  BY <1>1 DEF DInv, Delivery, Pipe, InPipe, engineVars
<1>4. Counts'
  BY DEF DInv, Counts, CountsAreExact
<1>5. EngineEnds' /\ Complete' = Complete
  BY <1>1 DEF DInv, Ends, EngineEnds, engineVars, Complete
<1> QED  BY <1>2, <1>3, <1>4, <1>5 DEF Delivery

\* The handler of a message, as far as the end of the session goes.
LEMMA HandlerEnds ==
    ASSUME DInv, cargo_hax' \in {"loop", "panicked"},
           UNCHANGED <<options, engineVars>>
    PROVE  Ends'
BY ResultsStable DEF DInv, Ends, EngineEnds, CargoEnds, engineVars, AfterRun

\* There is always `Exit` to come.
LEMMA HandledBound ==
    ASSUME TypeOK, Front
    PROVE  Handled < Len(Results)
BY HandledType, ResultsParts DEF Front, Handled

LEMMA HandleExitStep ==
    ASSUME DInv, HandleExit PROVE Delivery' /\ Counts' /\ Ends'
<1>1. Receive({"Exit"}) /\ cargo_hax' = "stats"
      /\ UNCHANGED <<options, error, reported, disk, output,
                     errors_per_item, engineVars>>
  BY DEF HandleExit
<1>2. Head(fromEngine) = Results[Handled + 1] /\ Handled < emitted
      /\ Head(fromEngine).type = "Exit"
  BY <1>1, OutputReceived DEF ResultTypes, Receive
<1>3. Complete
  BY <1>2, NextOutput DEF DInv, TypeInv, Delivery, Complete
<1>4. Results' = Results /\ Handled' = Handled /\ OutputFiles' = OutputFiles
  BY <1>1, ResultsStable DEF engineVars, Handled, OutputFiles
<1>5. Front' /\ Records' /\ Counts'
  BY <1>1, <1>4
     DEF DInv, Delivery, Front, Records, Counts, CountsAreExact, engineVars
<1>6. Pipe'
  BY <1>1 DEF Pipe, StdoutOpen
<1>7. Ends'
  BY <1>1, <1>3, <1>4
     DEF DInv, Ends, EngineEnds, CargoEnds, Complete, engineVars, AfterRun
<1> QED  BY <1>5, <1>6, <1>7 DEF Delivery

\* Which of the errors have the owner o.
Of(q, o) == {i \in 1 .. Len(q) : q[i].owner = o}

\* One more error about o is one more in its count.
LEMMA OneMore ==
    ASSUME NEW q \in Seq(Diagnostics), NEW d \in Diagnostics, NEW o
    PROVE  /\ Cardinality(Of(q, o)) \in Nat
           /\ d.owner = o =>
                  Cardinality(Of(Append(q, d), o)) = Cardinality(Of(q, o)) + 1
           /\ d.owner # o => Of(Append(q, d), o) = Of(q, o)
<1> DEFINE n == Len(q)
           p == Append(q, d)
           I == Of(q, o)
           J == Of(p, o)
<1>1. n \in Nat /\ Len(p) = n + 1 /\ p[n + 1] = d
      /\ \A i \in 1 .. n : p[i] = q[i]
  BY AppendParts
<1>2. I = {i \in 1 .. n : q[i].owner = o} /\ J = {i \in 1 .. Len(p) : p[i].owner = o}
  BY DEF Of
<1> HIDE DEF p, n, I, J
<1>3. IsFiniteSet(I)
  <2>1. IsFiniteSet(1 .. n)
    BY ONLY <1>1, FS_Interval
  <2>2. I \in SUBSET (1 .. n)
    BY <1>2
  <2> QED  BY <2>1, <2>2, FS_Subset
<1>4. Cardinality(I) \in Nat
  BY <1>3, FS_CardinalityType
<1>5. ASSUME d.owner = o PROVE Cardinality(J) = Cardinality(I) + 1
  <2>1. J = I \cup {n + 1}
    BY <1>1, <1>2, <1>5
  <2>2. n + 1 \notin I
    BY <1>1, <1>2
  <2> QED  BY <1>3, <2>1, <2>2, FS_AddElement
<1>6. ASSUME d.owner # o PROVE J = I
  BY <1>1, <1>2, <1>6
<1> QED  BY <1>4, <1>5, <1>6 DEF I, J, p

LEMMA HandleDiagnosticStep ==
    ASSUME DInv, HandleDiagnostic PROVE Delivery' /\ Counts' /\ Ends'
<1> DEFINE d == Head(fromEngine)
<1>1. /\ Receive({"Diagnostic"}) /\ error' = TRUE
      /\ output' = IF options.dry_run
                     THEN [output EXCEPT !.diagnostics = Append(@, d)]
                     ELSE output
      /\ IF d.owner = NoOwner THEN UNCHANGED errors_per_item
                              ELSE CountError(d.owner)
      /\ reported' = Append(reported, d)
      /\ UNCHANGED <<options, cargo_hax, disk, engineVars>>
  BY DEF HandleDiagnostic
<1>2. Handled < emitted /\ d = Results[Handled + 1] /\ d.type = "Diagnostic"
  BY <1>1, OutputReceived DEF ResultTypes, Receive
<1>3. /\ Len(reported) < Len(state) /\ d = state[Len(reported) + 1]
      /\ Len(OutputFiles) = 0 /\ ~output.debug_json
  BY <1>2, NextOutput DEF DInv, TypeInv, Delivery
<1>4. /\ reported \in Seq(Diagnostics) /\ state \in Seq(Diagnostics)
      /\ Len(reported) \in Nat /\ Len(state) \in Nat
      /\ OutputFiles \in Seq(FileMessages) /\ emitted \in Nat
      /\ Handled \in Nat
  BY HandledType DEF DInv, TypeInv
<1>5. d \in Diagnostics
  BY <1>3, <1>4
<1>6. output.debug_json \in BOOLEAN
      /\ output \in [diagnostics : Seq(Diagnostics), files : Seq(FileMessages),
                     debug_json : BOOLEAN]
  BY DEF DInv, TypeInv, TypeOK, CargoTypeOK
<1>7. output'.files = output.files /\ output'.debug_json = output.debug_json
      /\ (options.dry_run => output'.diagnostics = Append(output.diagnostics, d))
      /\ (~options.dry_run => output' = output)
  BY <1>1, <1>6
<1>8. OutputFiles' = OutputFiles /\ OutputFiles = <<>>
  BY <1>1, <1>3, <1>4, <1>7, EmptySeq DEF OutputFiles
<1>9. Results' = Results /\ emitted' = emitted /\ state' = state
      /\ files' = files
  BY <1>1, ResultsStable DEF engineVars
<1> HIDE DEF d
<1>10. /\ Len(reported') = Len(reported) + 1
       /\ reported'[Len(reported) + 1] = d
       /\ \A i \in 1 .. Len(reported) : reported'[i] = reported[i]
       /\ reported' \in Seq(Diagnostics)
  <2>1. reported' = Append(reported, d)
    BY <1>1 DEF d
  <2> QED  BY <1>4, <1>5, <2>1, AppendParts, AppendType
<1>11. Handled' = Handled + 1
  BY <1>4, <1>7, <1>8, <1>10, <1>3 DEF Handled
<1>12. Front'
  <2>1. \A i \in 1 .. Len(reported') : reported'[i] = state'[i]
    <3> TAKE i \in 1 .. Len(reported')
    <3>1. CASE i = Len(reported) + 1
      BY <1>3, <1>9, <1>10, <3>1 DEF d
    <3>2. CASE i \in 1 .. Len(reported)
      BY <1>9, <1>10, <3>2 DEF DInv, Delivery, Front
    <3> QED  BY <1>4, <1>10, <3>1, <3>2
  <2>2. Handled' <= emitted' /\ emitted' <= Len(Results')
    BY <1>2, <1>4, <1>9, <1>11 DEF DInv, Delivery, Front
  <2>3. Len(reported') <= Len(state')
    BY <1>3, <1>4, <1>9, <1>10
  <2>4. Len(OutputFiles') = 0 /\ Len(files') \in Nat
    BY <1>3, <1>8, <1>9, HandledType DEF DInv, TypeInv
  <2> QED
    BY <1>3, <1>7, <1>8, <2>1, <2>2, <2>3, <2>4 DEF Front
<1>13. Records'
  <2>1. reported' # <<>>
    BY <1>4, <1>10, EmptySeq
  <2>2. options' = options /\ disk' = disk /\ error' = TRUE
        /\ reported' = Append(reported, d)
    BY <1>1 DEF d
  <2> QED
    BY <1>7, <2>1, <2>2 DEF DInv, Delivery, Records, d
<1>14. Pipe'
  BY <1>1, <1>11, PipeAdvances DEF ResultTypes
<1>15. Ends'
  BY <1>1, HandlerEnds DEF Receive
<1>16. Counts'
  <2> DEFINE dom == DOMAIN errors_per_item
             I(o) == Of(reported, o)
             J(o) == Of(reported', o)
  <2>1. reported' = Append(reported, d)
    BY <1>1 DEF d
  <2>2. ASSUME NEW o
        PROVE  /\ Cardinality(I(o)) \in Nat
               /\ d.owner = o => Cardinality(J(o)) = Cardinality(I(o)) + 1
               /\ d.owner # o => J(o) = I(o)
    BY <1>4, <1>5, <2>1, OneMore
  <2>3. \A o \in dom : errors_per_item[o] = Cardinality(I(o))
    BY DEF DInv, Counts, CountsAreExact, Of
  <2>4. \A i \in 1 .. Len(reported) : reported[i].owner # NoOwner =>
            reported[i].owner \in dom
    BY DEF DInv, Counts
  <2>5. \A o : o \notin dom /\ o # NoOwner => I(o) = {}
    BY <2>4 DEF Of
  <2>6. NoOwner \notin dom
    BY OwnerAssumption DEF DInv, TypeInv, TypeOK, CargoTypeOK
  <2> HIDE DEF I, J
  <2>7. CASE d.owner = NoOwner
    <3>1. errors_per_item' = errors_per_item
      BY <1>1, <2>7 DEF d
    <3>2. \A o \in DOMAIN errors_per_item' : errors_per_item'[o] = Cardinality(J(o))
      BY <2>2, <2>3, <2>6, <2>7, <3>1
    <3>3. \A i \in 1 .. Len(reported') : reported'[i].owner # NoOwner =>
              reported'[i].owner \in DOMAIN errors_per_item'
      <4> TAKE i \in 1 .. Len(reported')
      <4>1. i \in 1 .. Len(reported) \/ reported'[i] = d
        BY <1>4, <1>10
      <4> QED  BY <1>10, <2>4, <2>7, <3>1, <4>1
    <3> QED  BY <3>2, <3>3 DEF Counts, CountsAreExact, J, Of
  <2>8. CASE d.owner # NoOwner
    <3>1. errors_per_item' =
              [p \in dom \cup {d.owner} |->
                  IF p # d.owner THEN errors_per_item[p]
                  ELSE IF d.owner \in dom THEN errors_per_item[d.owner] + 1
                  ELSE 1]
      BY <1>1, <2>8 DEF CountError, d
    <3>2. DOMAIN errors_per_item' = dom \cup {d.owner}
      BY <3>1
    <3>3. ASSUME NEW o \in dom \cup {d.owner}
          PROVE  errors_per_item'[o] = Cardinality(J(o))
      <4>1. CASE o # d.owner
        <5>1. errors_per_item'[o] = errors_per_item[o] /\ o \in dom
          BY <3>1, <4>1
        <5> QED  BY <2>2, <2>3, <4>1, <5>1
      <4>2. CASE o = d.owner /\ o \in dom
        <5>1. errors_per_item'[o] = errors_per_item[o] + 1
          BY <3>1, <4>2
        <5> QED  BY <2>2, <2>3, <4>2, <5>1
      <4>3. CASE o = d.owner /\ o \notin dom
        <5>1. errors_per_item'[o] = 1 /\ I(o) = {}
          BY <2>5, <2>8, <3>1, <4>3
        <5>2. Cardinality(I(o)) = 0
          BY <5>1, FS_EmptySet
        <5> QED  BY <2>2, <4>3, <5>1, <5>2
      <4> QED  BY <4>1, <4>2, <4>3
    <3>4. \A i \in 1 .. Len(reported') : reported'[i].owner # NoOwner =>
              reported'[i].owner \in dom \cup {d.owner}
      <4> TAKE i \in 1 .. Len(reported')
      <4>1. i \in 1 .. Len(reported) \/ reported'[i] = d
        BY <1>4, <1>10
      <4> QED  BY <1>10, <2>4, <4>1
    <3> QED  BY <3>2, <3>3, <3>4 DEF Counts, CountsAreExact, J, Of
  <2> QED  BY <2>7, <2>8
<1> QED  BY <1>12, <1>13, <1>14, <1>15, <1>16 DEF Delivery

\* The next file, whether its handler goes on or panics after having written it.
LEMMA OneMoreFile ==
    ASSUME DInv, NEW T, Receive(T), Head(fromEngine).type = "File",
           OutputFiles' = Append(OutputFiles, Head(fromEngine)),
           output'.debug_json = output.debug_json,
           UNCHANGED <<options, reported, errors_per_item, engineVars>>
    PROVE  Front' /\ Handled' = Handled + 1 /\ Counts'
<1> DEFINE d == Head(fromEngine)
<1>1. Receive({"File"})
  BY DEF Receive
<1>2. Handled < emitted /\ d = Results[Handled + 1] /\ d.type = "File"
  BY <1>1, OutputReceived DEF ResultTypes
<1>3. /\ Len(reported) = Len(state) /\ Len(OutputFiles) < Len(files)
      /\ d = files[Len(OutputFiles) + 1] /\ ~output.debug_json
  BY <1>2, NextOutput DEF DInv, TypeInv, Delivery
<1>4. /\ OutputFiles \in Seq(FileMessages) /\ files \in Seq(FileMessages)
      /\ Len(OutputFiles) \in Nat /\ Len(files) \in Nat
      /\ Len(reported) \in Nat /\ Handled \in Nat /\ emitted \in Nat
  BY HandledType DEF DInv, TypeInv
<1>5. Results' = Results /\ emitted' = emitted /\ state' = state
      /\ files' = files
  BY ResultsStable DEF engineVars
<1> HIDE DEF d
<1>6. /\ Len(OutputFiles') = Len(OutputFiles) + 1
      /\ OutputFiles'[Len(OutputFiles) + 1] = d
      /\ \A i \in 1 .. Len(OutputFiles) : OutputFiles'[i] = OutputFiles[i]
  <2>1. OutputFiles' = Append(OutputFiles, d)
    BY DEF d
  <2> QED  BY <1>4, <2>1, AppendParts
<1>7. Handled' = Handled + 1
  BY <1>3, <1>4, <1>6 DEF Handled
<1>8. \A i \in 1 .. Len(OutputFiles') : OutputFiles'[i] = files'[i]
  <2> TAKE i \in 1 .. Len(OutputFiles')
  <2>1. CASE i = Len(OutputFiles) + 1
    BY <1>3, <1>5, <1>6, <2>1
  <2>2. CASE i \in 1 .. Len(OutputFiles)
    BY <1>5, <1>6, <2>2 DEF DInv, Delivery, Front
  <2> QED  BY <1>4, <1>6, <2>1, <2>2
<1>9. Handled' <= emitted' /\ emitted' <= Len(Results')
  BY <1>2, <1>4, <1>5, <1>7 DEF DInv, Delivery, Front
<1>10. Len(OutputFiles') <= Len(files')
  BY <1>3, <1>4, <1>5, <1>6
<1>11. Front'
  BY <1>3, <1>5, <1>8, <1>9, <1>10 DEF DInv, Delivery, Front
<1> QED
  BY <1>7, <1>11 DEF DInv, Counts, CountsAreExact

LEMMA HandleFileStep ==
    ASSUME DInv, HandleFile PROVE Delivery' /\ Counts' /\ Ends'
<1> DEFINE d == Head(fromEngine)
<1>1. /\ Receive({"File"}) /\ d.type = "File"
      /\ IF options.dry_run
           THEN /\ output' = [output EXCEPT !.files = Append(@, d)]
                /\ UNCHANGED disk
           ELSE /\ disk' = Append(disk, d)
                /\ UNCHANGED output
      /\ UNCHANGED <<options, cargo_hax, error, reported, errors_per_item,
                     engineVars>>
  BY DEF HandleFile, Receive
<1>2. output \in [diagnostics : Seq(Diagnostics), files : Seq(FileMessages),
                  debug_json : BOOLEAN]
  BY DEF DInv, TypeInv, TypeOK, CargoTypeOK
<1> HIDE DEF d
<1>3. /\ OutputFiles' = Append(OutputFiles, d)
      /\ output'.debug_json = output.debug_json
      /\ output'.diagnostics = output.diagnostics
      /\ ~options.dry_run => output' = output
  BY <1>1, <1>2 DEF OutputFiles
<1>4. Front' /\ Handled' = Handled + 1 /\ Counts'
  BY <1>1, <1>3, OneMoreFile DEF d
<1>5. Records'
  BY <1>1, <1>3 DEF DInv, Delivery, Records
<1>6. Pipe'
  BY <1>1, <1>4, PipeAdvances DEF ResultTypes
<1>7. Ends'
  BY <1>1, HandlerEnds DEF Receive
<1> QED  BY <1>4, <1>5, <1>6, <1>7 DEF Delivery

LEMMA HandleDebugStringStep ==
    ASSUME DInv, HandleDebugString PROVE Delivery' /\ Counts' /\ Ends'
<1>1. /\ Receive({"DebugString"})
      /\ output' = [output EXCEPT !.debug_json = TRUE]
      /\ UNCHANGED <<options, cargo_hax, error, reported, disk,
                     errors_per_item, engineVars>>
  BY DEF HandleDebugString
<1>2. Handled < emitted /\ Results[Handled + 1].type = "DebugString"
  BY <1>1, OutputReceived DEF ResultTypes, Receive
<1>3. /\ Len(reported) = Len(state) /\ Len(OutputFiles) = Len(files)
      /\ options.debug /\ ~output.debug_json
  BY <1>2, NextOutput DEF DInv, TypeInv, Delivery
<1>4. output \in [diagnostics : Seq(Diagnostics), files : Seq(FileMessages),
                  debug_json : BOOLEAN]
  BY DEF DInv, TypeInv, TypeOK, CargoTypeOK
<1>5. /\ output'.files = output.files /\ output'.debug_json
      /\ output'.diagnostics = output.diagnostics
  BY <1>1, <1>4
<1>6. OutputFiles' = OutputFiles
  BY <1>1, <1>5 DEF OutputFiles
<1>7. Results' = Results /\ emitted' = emitted /\ state' = state
      /\ files' = files
  BY <1>1, ResultsStable DEF engineVars
<1>8. Handled' = Handled + 1
  <2>1. Len(reported) \in Nat /\ Len(OutputFiles) \in Nat
    BY HandledType DEF DInv, TypeInv
  <2>2. Handled = Len(reported) + Len(OutputFiles)
    BY <1>3, <2>1 DEF Handled
  <2>3. Handled' = Len(reported) + Len(OutputFiles) + 1
    BY <1>1, <1>5, <1>6 DEF Handled
  <2> QED  BY <2>2, <2>3
<1>9. Front'
  <2>1. Handled' <= emitted' /\ emitted' <= Len(Results')
    BY <1>2, <1>7, <1>8, HandledType DEF DInv, TypeInv, Delivery, Front
  <2> QED
    BY <1>1, <1>3, <1>6, <1>7, <2>1 DEF DInv, Delivery, Front
<1>10. Records' /\ Counts'
  BY <1>1, <1>5
     DEF DInv, Delivery, Records, Counts, CountsAreExact
<1>11. Pipe'
  BY <1>1, <1>8, PipeAdvances DEF ResultTypes
<1>12. Ends'
  BY <1>1, HandlerEnds DEF Receive
<1> QED  BY <1>9, <1>10, <1>11, <1>12 DEF Delivery

\* A message about the work of the engine: no output is acted on.
LEMMA WorkStep ==
    ASSUME DInv, NEW T, Receive(T),
           T \cap (ResultTypes \cup {"Truncated"}) = {},
           UNCHANGED <<options, cargo_hax, error, reported, disk, output,
                       engineVars>>
    PROVE  Delivery' /\ Ends' /\ Handled = 0
<1>1. Results' = Results /\ Handled' = Handled /\ OutputFiles' = OutputFiles
  BY ResultsStable DEF engineVars, Handled, OutputFiles
<1>2. Front' /\ Records'
  BY <1>1 DEF DInv, Delivery, Front, Records, engineVars
<1>3. Pipe'
  BY <1>1, PipeAdvances
<1>4. Ends'
  BY HandlerEnds DEF Receive
<1> QED  BY <1>2, <1>3, <1>4, WorkReceived DEF Delivery

LEMMA HandleItemProcessedStep ==
    ASSUME DInv, HandleItemProcessed PROVE Delivery' /\ Counts' /\ Ends'
<1> DEFINE S == Head(fromEngine).items
<1>1. /\ Receive({"ItemProcessed"})
      /\ errors_per_item' =
            [o \in DOMAIN errors_per_item \cup S |->
                IF o \in S THEN 0 ELSE errors_per_item[o]]
      /\ UNCHANGED <<options, cargo_hax, error, reported, disk, output,
                     engineVars>>
  BY DEF HandleItemProcessed
<1>2. Delivery' /\ Ends' /\ Handled = 0
  BY <1>1, WorkStep DEF ResultTypes
<1> HIDE DEF S
<1>3. Len(reported) = 0 /\ reported' = reported
  BY <1>1, <1>2, HandledType DEF DInv, TypeInv, Handled
<1>4. \A o : Of(reported, o) = {}
  BY <1>3 DEF Of
<1>5. \A o : Cardinality(Of(reported, o)) = 0
  BY <1>4, FS_EmptySet
<1>6. \A o \in DOMAIN errors_per_item : errors_per_item[o] = 0
  BY <1>5 DEF DInv, Counts, CountsAreExact, Of
<1>7. \A o \in DOMAIN errors_per_item' : errors_per_item'[o] = 0
  BY <1>1, <1>6
<1>8. CountsAreExact'
  BY <1>3, <1>5, <1>7 DEF CountsAreExact, Of
<1> QED  BY <1>2, <1>3, <1>8 DEF Counts

LEMMA HandlerPanicsStep ==
    ASSUME DInv, HandlerPanics PROVE Delivery' /\ Counts' /\ Ends'
<1>1. /\ cargo_hax' = "panicked" /\ fromEngine' = Tail(fromEngine)
      /\ UNCHANGED <<options, error, reported, output, errors_per_item,
                     engineVars>>
  BY DEF HandlerPanics, Receive
<1>2. Pipe'
  BY <1>1 DEF Pipe, StdoutOpen
<1>3. Ends'
  BY <1>1, HandlerEnds
<1>4. CASE UNCHANGED disk
  <2>1. Results' = Results /\ Handled' = Handled /\ OutputFiles' = OutputFiles
    BY <1>1, <1>4, ResultsStable DEF engineVars, Handled, OutputFiles
  <2>2. Front' /\ Records' /\ Counts'
    BY <1>1, <1>4, <2>1 DEF DInv, Delivery, Front, Records, engineVars,
       Counts, CountsAreExact
  <2> QED  BY <1>2, <1>3, <2>2 DEF Delivery
<1>5. CASE /\ Head(fromEngine) \in FileMessages
           /\ disk' = Append(disk, Head(fromEngine))
  <2>1. Head(fromEngine).type = "File"
    BY <1>5 DEF FileMessages
  <2>2. PICK T : Receive(T) /\ (options.dry_run => "File" \notin T)
    <3> DEFINE T == {"Truncated"}
               \cup (IF EngineAlive THEN {} ELSE RequestKinds)
               \cup (IF options.human THEN {"Diagnostic"} ELSE {})
               \cup (IF options.dry_run THEN {} ELSE {"File"})
    <3>1. Receive(T)
      BY DEF HandlerPanics
    <3>2. options.dry_run => "File" \notin T
      BY DEF RequestKinds
    <3> HIDE DEF T
    <3> QED  BY <3>1, <3>2
  <2>3. ~options.dry_run
    BY <2>1, <2>2 DEF Receive
  <2>4. OutputFiles' = Append(OutputFiles, Head(fromEngine))
    BY <1>1, <1>5, <2>3 DEF OutputFiles
  <2>5. Front' /\ Counts'
    BY <1>1, <2>1, <2>2, <2>4, OneMoreFile
  <2>6. Records'
    BY <1>1, <2>3 DEF DInv, Delivery, Records
  <2> QED  BY <1>2, <1>3, <2>5, <2>6 DEF Delivery
<1> QED  BY <1>4, <1>5 DEF HandlerPanics

\* The loop ends without `Exit`: the engine did not end well.
LEMMA EndOfOutputStep ==
    ASSUME DInv, EndOfOutput PROVE Delivery' /\ Counts' /\ Ends'
<1>1. /\ cargo_hax = "loop" /\ fromEngine = <<>> /\ engine = "exited"
      /\ cargo_hax' = "stats"
      /\ UNCHANGED <<options, error, reported, disk, output, errors_per_item,
                     engineVars, fromEngine>>
  BY DEF EndOfOutput, EngineAlive
<1>2. Delivery' /\ Counts' /\ EngineEnds'
  BY <1>1, CargoStill DEF StdoutOpen
<1>3. exitCode # 0
  <2> SUFFICES ASSUME exitCode = 0 PROVE FALSE
    OBVIOUS
  <2>1. emitted = Len(Results) /\ Handled < Len(Results)
    BY <1>1, HandledBound DEF DInv, TypeInv, Delivery, Ends, EngineEnds
  <2>2. PICK c \in Nat : InPipe(c)
    BY <1>1 DEF DInv, Delivery, Pipe, StdoutOpen
  <2>3. Len(fromEngine) = 0
    BY <1>1
  <2>4. Handled \in Nat /\ emitted \in Nat
    BY HandledType DEF DInv, TypeInv
  <2>5. c + (emitted - Handled) > 0
    BY <2>1, <2>4
  <2> QED  BY <2>2, <2>3, <2>4, <2>5 DEF InPipe
<1>4. CargoEnds'
  BY <1>1, <1>3 DEF CargoEnds, engineVars
<1> QED  BY <1>2, <1>4 DEF Ends

LEMMA CargoStep ==
    ASSUME DInv, CargoHax \/ CargoHaxKilled
    PROVE  Delivery' /\ Counts' /\ Ends'
<1>1. CASE SendOptions
  BY <1>1, CargoStill
     DEF SendOptions, StdoutOpen, Ends, CargoEnds, engineVars, DInv
<1>2. CASE SendFails
  BY <1>2, CargoStill
     DEF SendFails, StdoutOpen, Ends, CargoEnds, engineVars, DInv
<1>3. CASE HandleDiagnostic
  BY <1>3, HandleDiagnosticStep
<1>4. CASE HandleFile
  BY <1>4, HandleFileStep
<1>5. CASE HandleDebugString
  BY <1>5, HandleDebugStringStep
<1>6. CASE HandleRequest
  <2>1. RequestKinds \cap (ResultTypes \cup {"Truncated"}) = {}
    BY DEF RequestKinds, ResultTypes
  <2>2. Receive(RequestKinds) /\ UNCHANGED <<options, cargoVars, engineVars>>
    BY <1>6 DEF HandleRequest
  <2>3. Delivery' /\ Ends'
    BY <2>1, <2>2, WorkStep DEF cargoVars
  <2> QED  BY <2>2, <2>3 DEF DInv, Counts, CountsAreExact, cargoVars
<1>7. CASE HandleProfilingData
  <2>1. Receive({"ProfilingData"}) /\ UNCHANGED <<options, cargoVars, engineVars>>
    BY <1>7 DEF HandleProfilingData
  <2>2. Delivery' /\ Ends'
    BY <2>1, WorkStep DEF cargoVars, ResultTypes
  <2> QED  BY <2>1, <2>2 DEF DInv, Counts, CountsAreExact, cargoVars
<1>8. CASE HandleItemProcessed
  BY <1>8, HandleItemProcessedStep
<1>9. CASE HandleExit
  BY <1>9, HandleExitStep
<1>10. CASE EndOfOutput
  BY <1>10, EndOfOutputStep
<1>11. CASE HandlerPanics
  BY <1>11, HandlerPanicsStep
<1>12. CASE Stats
  BY <1>12, CargoStill
     DEF Stats, StdoutOpen, Ends, CargoEnds, engineVars, DInv
<1>13. CASE Wait
  BY <1>13, CargoStill
     DEF Wait, StdoutOpen, EngineAlive, Ends, CargoEnds, engineVars, DInv
<1>14. CASE CargoHaxKilled
  BY <1>14, CargoStill
     DEF CargoHaxKilled, StdoutOpen, Ends, CargoEnds, engineVars, DInv
<1> QED
  BY <1>1, <1>2, <1>3, <1>4, <1>5, <1>6, <1>7, <1>8, <1>9, <1>10, <1>11,
     <1>12, <1>13, <1>14 DEF CargoHax

-----------------------------------------------------------------------------
(* The theorems *)

LEMMA InitDInv == Init => DInv
<1> SUFFICES ASSUME Init PROVE DInv
  OBVIOUS
<1>1. TypeInv
  BY InitTypeInv
<1>2. OutputFiles = <<>> /\ Handled = 0 /\ Len(reported) = 0
  BY DEF Init, OutputFiles, Handled, EmptyOutput
<1>3. Len(Results) \in Nat \ {0}
  BY <1>1, ResultsType DEF TypeInv
<1>4. Front /\ Records
  BY <1>2, <1>3 DEF Init, Front, Records, EmptyOutput
<1>5. Pipe
  <2>1. InPipe(0)
    BY <1>2 DEF Init, InPipe
  <2> QED  BY <2>1 DEF Pipe
<1>6. Ends /\ Counts
  BY DEF Init, Ends, EngineEnds, CargoEnds, Counts, CountsAreExact
<1> QED  BY <1>1, <1>4, <1>5, <1>6 DEF DInv, Delivery

LEMMA NextDInv == DInv /\ [Next]_vars => DInv'
<1> SUFFICES ASSUME DInv, [Next]_vars PROVE DInv'
  OBVIOUS
<1>1. TypeInv'
  BY StepTypeInv DEF DInv
<1>2. CASE Engine \/ Killed
  BY <1>1, <1>2, EngineStep DEF DInv
<1>3. CASE CargoHax \/ CargoHaxKilled
  BY <1>1, <1>3, CargoStep DEF DInv
<1>4. CASE UNCHANGED vars
  <2>1. Delivery' /\ Counts' /\ EngineEnds' /\ Complete' = Complete
    BY <1>4, CargoStill DEF vars, cargoVars, StdoutOpen
  <2>2. CargoEnds'
    BY <1>4, <2>1 DEF vars, cargoVars, engineVars, DInv, Ends, CargoEnds
  <2> QED  BY <1>1, <2>1, <2>2 DEF DInv, Ends
<1> QED  BY <1>2, <1>3, <1>4 DEF Next, Terminated

LEMMA Invariant == Spec => []DInv
BY InitDInv, NextDInv, PTL DEF Spec

\* Two sequences with the same elements.
LEMMA SameSequence ==
    ASSUME NEW S, NEW p \in Seq(S), NEW q \in Seq(S), Len(p) = Len(q),
           \A i \in 1 .. Len(p) : p[i] = q[i]
    PROVE  p = q
OBVIOUS

LEMMA AllHandled ==
    ASSUME DInv, Complete
    PROVE  /\ reported = state /\ OutputFiles = files
           /\ output.debug_json = options.debug
<1>1. /\ reported \in Seq(Diagnostics) /\ state \in Seq(Diagnostics)
      /\ OutputFiles \in Seq(FileMessages) /\ files \in Seq(FileMessages)
      /\ Len(reported) \in Nat /\ Len(OutputFiles) \in Nat
      /\ Len(state) \in Nat /\ Len(files) \in Nat
      /\ output.debug_json \in BOOLEAN /\ options.debug \in BOOLEAN
  BY HandledType DEF DInv, TypeInv, TypeOK, Options
<1>2. Len(reported) + Len(OutputFiles) + (IF output.debug_json THEN 1 ELSE 0)
          = Len(state) + Len(files) + (IF options.debug THEN 1 ELSE 0)
  BY <1>1, ResultsParts DEF Complete, Handled, DInv, TypeInv
<1>3. /\ Len(reported) <= Len(state) /\ Len(OutputFiles) <= Len(files)
      /\ output.debug_json => options.debug
  BY DEF DInv, Delivery, Front
<1>4. /\ Len(reported) = Len(state) /\ Len(OutputFiles) = Len(files)
      /\ output.debug_json = options.debug
  BY <1>1, <1>2, <1>3
<1>5. reported = state /\ OutputFiles = files
  BY <1>1, <1>4, SameSequence DEF DInv, Delivery, Front
<1> QED  BY <1>4, <1>5

\* When run_engine returns normally, the user has seen every diagnostic and
\* every file is where it must be, whichever process died or was killed when.
THEOREM ReturnsComplete == Spec => []ReturnedIsComplete
<1>1. DInv => ReturnedIsComplete
  <2> SUFFICES ASSUME DInv, cargo_hax = "returned" PROVE ReturnedIsComplete
    BY DEF ReturnedIsComplete
  <2>1. Complete
    BY DEF DInv, Ends, CargoEnds
  <2>2. /\ reported = state /\ OutputFiles = files
        /\ output.debug_json = options.debug
    BY <2>1, AllHandled
  <2> QED
    BY <2>2 DEF ReturnedIsComplete, DInv, Delivery, Records
<1> QED  BY <1>1, Invariant, PTL

\* No file is written before every diagnostic was reported.
THEOREM FilesAreLast == Spec => []FilesComeLast
<1>1. DInv => FilesComeLast
  <2> SUFFICES ASSUME DInv, OutputFiles # <<>>
               PROVE  reported = state /\ stage = AfterRun
    BY DEF FilesComeLast
  <2>1. /\ reported \in Seq(Diagnostics) /\ state \in Seq(Diagnostics)
        /\ OutputFiles \in Seq(FileMessages) /\ Len(OutputFiles) \in Nat
        /\ Len(reported) \in Nat /\ Handled \in Nat /\ emitted \in Nat
    BY HandledType DEF DInv, TypeInv
  <2>2. Len(OutputFiles) > 0
    BY <2>1, EmptySeq
  <2>3. emitted > 0
    BY <2>1, <2>2 DEF DInv, Delivery, Front, Handled
  <2>4. reported = state
    BY <2>1, SameSequence DEF DInv, Delivery, Front
  <2> QED
    BY <2>3, <2>4 DEF DInv, Ends, EngineEnds
<1> QED  BY <1>1, Invariant, PTL

\* An exception in the engine leaves nothing of the translation behind.
THEOREM ExceptionsAreClean == Spec => []ExceptionLeavesNothing
<1>1. DInv => ExceptionLeavesNothing
  <2> SUFFICES ASSUME DInv, exitCode \in {1, 2}
               PROVE  reported = <<>> /\ disk = <<>> /\ output = EmptyOutput
    BY DEF ExceptionLeavesNothing
  <2>1. emitted = 0
    BY DEF DInv, Ends, EngineEnds
  <2>2. Handled = 0
    BY <2>1, HandledType DEF DInv, TypeInv, Delivery, Front
  <2>3. Len(reported) = 0 /\ Len(OutputFiles) = 0 /\ ~output.debug_json
    BY <2>2, HandledType DEF DInv, TypeInv, Handled
  <2>4. reported = <<>> /\ OutputFiles = <<>>
    BY <2>3, HandledType, EmptySeq DEF DInv, TypeInv
  <2>5. /\ output \in [diagnostics : Seq(Diagnostics),
                       files : Seq(FileMessages), debug_json : BOOLEAN]
        /\ options.dry_run \in BOOLEAN
    BY DEF DInv, TypeInv, TypeOK, CargoTypeOK, Options
  <2>6. output.diagnostics = <<>> /\ output.files = <<>> /\ disk = <<>>
    BY <2>4, <2>5 DEF DInv, Delivery, Records, OutputFiles
  <2>7. output = EmptyOutput
    BY <2>3, <2>5, <2>6 DEF EmptyOutput
  <2> QED  BY <2>4, <2>6, <2>7
<1> QED  BY <1>1, Invariant, PTL

\* The reset of the counters, which may come after errors without an owner
\* but not after a counted one, never loses an error.
THEOREM CountsStayExact == Spec => []CountsAreExact
<1>1. DInv => CountsAreExact
  BY DEF DInv, Counts
<1> QED  BY <1>1, Invariant, PTL

-----------------------------------------------------------------------------
(* The refinement: initial states map to initial states, and each step to a
   step of the session or to none. *)

\* The refinement mapping, variable by variable.
Announced == IF emitted > 0 THEN SubSeq(Results, 1, Len(Results) - 1)
                            ELSE <<>>

Outcome == CASE cargo_hax = "returned" -> "ok"
             [] cargo_hax \in {"exit1", "panicked", "killed"} -> "failed"
             [] OTHER -> "running"

Running == {"send", "loop", "stats", "wait"}

Mapped == <<emitted > 0, Announced, Delivered, Outcome>>

LEMMA MappedVars == Session!vars = Mapped /\ Session!vars' = Mapped'
BY DEF Session!vars, Mapped, Announced, Outcome

-----------------------------------------------------------------------------
(* What is mapped *)

LEMMA OutcomeOf ==
    ASSUME TypeOK
    PROVE  /\ cargo_hax \in Running => Outcome = "running"
           /\ cargo_hax = "returned" => Outcome = "ok"
           /\ cargo_hax \in {"exit1", "panicked", "killed"} => Outcome = "failed"
BY DEF Outcome, Running

LEMMA DeliveredLen ==
    ASSUME TypeOK
    PROVE  Len(Delivered) = Handled
<1> DEFINE dbg == IF output.debug_json THEN <<DebugString>> ELSE <<>>
           n == IF output.debug_json THEN 1 ELSE 0
<1>1. reported \in Seq(FromEngine) /\ OutputFiles \in Seq(FromEngine)
  BY HandledType, MessageTypes
<1>2. dbg \in Seq(FromEngine) /\ Len(dbg) = n
  BY MessageTypes
<1>3. Delivered = reported \o OutputFiles \o dbg
  BY DEF Delivered
<1>4. Handled = Len(reported) + Len(OutputFiles) + n
  BY DEF Handled
<1> HIDE DEF dbg, n
<1>5. /\ reported \o OutputFiles \in Seq(FromEngine)
      /\ Len(reported \o OutputFiles) = Len(reported) + Len(OutputFiles)
  BY <1>1, ConcatParts
<1>6. Len(reported \o OutputFiles \o dbg) = Len(reported \o OutputFiles) + Len(dbg)
  BY <1>2, <1>5, ConcatParts
<1> QED  BY <1>2, <1>3, <1>4, <1>5, <1>6

\* The results without `Exit` are outputs.
Outputs == SubSeq(Results, 1, Len(Results) - 1)

LEMMA OutputsParts ==
    ASSUME TypeOK
    PROVE  /\ Outputs \in Seq(Output)
           /\ Len(Outputs) = Len(Results) - 1
           /\ \A i \in 1 .. Len(Results) - 1 : Outputs[i] = Results[i]
<1> DEFINE dbg == IF options.debug THEN <<DebugString>> ELSE <<>>
           a == state \o files \o dbg
<1>1. state \in Seq(Output) /\ files \in Seq(Output)
  <2>1. state \in Seq(Diagnostics) /\ files \in Seq(FileMessages)
    BY HandledType
  <2>2. Diagnostics \subseteq Output /\ FileMessages \subseteq Output
    BY DEF Output
  <2> QED  BY <2>1, <2>2
<1>2. dbg \in Seq(Output)
  <2>1. DebugString \in Output
    BY DEF Output
  <2> QED  BY <2>1
<1>3. Results = a \o <<Exit>>
  BY DEF Results
<1> HIDE DEF dbg
<1>4. a \in Seq(Output)
  BY <1>1, <1>2
<1> HIDE DEF a
<1>5. Len(Results) = Len(a) + 1 /\ \A i \in 1 .. Len(a) : Results[i] = a[i]
  BY <1>3, <1>4
<1>6. Results \in Seq(FromEngine)
  BY ResultsType
<1>7. /\ Len(Outputs) = Len(a) /\ Outputs \in Seq(FromEngine)
      /\ \A i \in 1 .. Len(a) : Outputs[i] = Results[i]
  BY <1>4, <1>5, <1>6 DEF Outputs
<1>8. Outputs = a
  BY <1>4, <1>5, <1>7
<1> QED  BY <1>4, <1>5, <1>7, <1>8

\* cargo-hax acts on the next of them.
LEMMA NextDelivered ==
    ASSUME DInv, Handled < emitted, Handled + 1 < Len(Results)
    PROVE  /\ Len(Delivered) < Len(Announced)
           /\ Announced[Len(Delivered) + 1] = Results[Handled + 1]
<1>1. Handled \in Nat /\ emitted \in Nat /\ Len(Results) \in Nat /\ emitted > 0
  BY HandledType, ResultsType DEF DInv, TypeInv
<1> QED
  BY <1>1, DeliveredLen, OutputsParts DEF DInv, TypeInv, Announced, Outputs

\* No output follows `Exit`.
LEMMA NotExit ==
    ASSUME DInv, Handled < emitted, Results[Handled + 1].type # "Exit"
    PROVE  Handled + 1 < Len(Results)
<1>1. Handled \in Nat /\ emitted \in Nat /\ Len(Results) \in Nat
      /\ emitted <= Len(Results)
  BY HandledType, ResultsType DEF DInv, TypeInv, Delivery, Front
<1>2. Handled + 1 # Len(Results)
  BY ResultsParts DEF DInv, TypeInv, Exit
<1> QED  BY <1>1, <1>2

-----------------------------------------------------------------------------
(* The engine *)

\* Whatever the engine does besides writing its results is no step of the
\* session.
LEMMA EngineIsSilent ==
    ASSUME DInv, Engine \/ Killed, ~Emit
    PROVE  UNCHANGED Mapped
<1>1. /\ UNCHANGED <<options, cargoVars, emitted>>
      /\ emitted = 0 \/ UNCHANGED <<state, files>>
  <2>0. engine \in {"options", "working", "awaiting", "leaving", "raising"} =>
            emitted = 0
    BY DEF DInv, TypeInv, EngineControl
  <2>1. CASE ReadOptions \/ ReadEOF \/ Report \/ DeclareItems
    BY <2>0, <2>1 DEF ReadOptions, ReadEOF, Report, DeclareItems
  <2>5. CASE \E k \in RequestKinds : Ask(k)
    BY <2>0, <2>5 DEF Ask
  <2>6. CASE FinishStage
    BY <2>0, <2>6 DEF FinishStage
  <2>2. CASE ReceiveAnswer \/ LeaveStage
    BY <2>0, <2>2 DEF ReceiveAnswer, LeaveStage
  <2>3. CASE RaiseFatal \/ RaiseCrash \/ Unwind \/ Conclude
    BY <2>0, <2>3 DEF RaiseFatal, RaiseCrash, Unwind, Conclude
  <2>4. CASE Close \/ BrokenPipe \/ Killed
    BY <2>4 DEF Close, BrokenPipe, Killed
  <2> QED  BY <2>1, <2>2, <2>3, <2>4, <2>5, <2>6 DEF Engine
<1>2. Delivered' = Delivered /\ Outcome' = Outcome
  BY <1>1, CargoIdle DEF Delivered, Outcome, cargoVars
<1>3. Announced' = Announced
  BY <1>1, ResultsStable DEF Announced
<1> QED  BY <1>1, <1>2, <1>3 DEF Mapped

\* The first result that is written makes them all computed.
LEMMA EmitComputes ==
    ASSUME DInv, Emit, TypeInv'
    PROVE  Session!Compute \/ UNCHANGED Mapped
<1>1. UNCHANGED <<options, cargoVars, state, files>> /\ emitted' = emitted + 1
      /\ emitted \in Nat
  BY HandledType DEF Emit, DInv, TypeInv
<1>2. Delivered' = Delivered /\ Outcome' = Outcome
  BY <1>1, CargoIdle DEF Delivered, Outcome, cargoVars
<1>3. Results' = Results
  BY <1>1, ResultsStable
<1>4. CASE emitted > 0
  BY <1>1, <1>2, <1>3, <1>4 DEF Mapped, Announced
<1>5. CASE emitted = 0
  <2>1. SubSeq(Results, 1, Len(Results) - 1) \in Seq(Output)
    BY OutputsParts DEF DInv, TypeInv, Outputs
  <2>2. emitted' > 0 /\ ~(emitted > 0)
    BY <1>1, <1>5
  <2> QED
    BY <1>2, <1>3, <2>1, <2>2 DEF Session!Compute, Outcome
<1> QED  BY <1>1, <1>4, <1>5
-----------------------------------------------------------------------------
(* cargo-hax *)

LEMMA ConcatEmpty ==
    ASSUME NEW S, NEW p \in Seq(S)
    PROVE  p \o <<>> = p
OBVIOUS

LEMMA ConcatAppend ==
    ASSUME NEW S, NEW p \in Seq(S), NEW q \in Seq(S), NEW m \in S
    PROVE  p \o Append(q, m) = Append(p \o q, m)
OBVIOUS

\* Acting on an output delivers it, whichever it is.
LEMMA DiagnosticDelivered ==
    ASSUME DInv, HandleDiagnostic
    PROVE  Delivered' = Append(Delivered, Head(fromEngine))
           /\ Head(fromEngine) = Results[Handled + 1] /\ Handled < emitted
           /\ Head(fromEngine).type # "Exit"
<1> DEFINE d == Head(fromEngine)
<1>1. /\ Receive({"Diagnostic"}) /\ d.type = "Diagnostic"
      /\ output' = IF options.dry_run
                     THEN [output EXCEPT !.diagnostics = Append(@, d)]
                     ELSE output
      /\ reported' = Append(reported, d) /\ UNCHANGED <<options, disk>>
  BY DEF HandleDiagnostic, Receive
<1>2. Handled < emitted /\ d = Results[Handled + 1]
  BY <1>1, OutputReceived DEF ResultTypes
<1>3. OutputFiles = <<>> /\ ~output.debug_json
  BY <1>1, <1>2, NextOutput, HandledType, EmptySeq DEF DInv, TypeInv, Delivery
<1>4. output \in [diagnostics : Seq(Diagnostics), files : Seq(FileMessages),
                  debug_json : BOOLEAN]
  BY DEF DInv, TypeInv, TypeOK, CargoTypeOK
<1> HIDE DEF d
<1>5. OutputFiles' = <<>> /\ ~output'.debug_json
  BY <1>1, <1>3, <1>4 DEF OutputFiles
<1>6. reported \in Seq(Diagnostics) /\ reported' \in Seq(Diagnostics)
  <2>1. d \in Diagnostics
    BY <1>1, MessageContents
       DEF Receive, DInv, TypeInv, TypeOK, PipesTypeOK, d
  <2> QED  BY <1>1, <2>1, HandledType DEF DInv, TypeInv
<1>7. Delivered = reported /\ Delivered' = reported'
  BY <1>3, <1>5, <1>6, ConcatEmpty DEF Delivered
<1> QED  BY <1>1, <1>2, <1>7 DEF d

\* The same of a file, as far as `disk` or `output` says that it was written.
LEMMA FileDelivered ==
    ASSUME DInv, NEW T, Receive(T), Head(fromEngine).type = "File",
           OutputFiles' = Append(OutputFiles, Head(fromEngine)),
           output'.debug_json = output.debug_json, UNCHANGED reported
    PROVE  Delivered' = Append(Delivered, Head(fromEngine))
           /\ Head(fromEngine) = Results[Handled + 1] /\ Handled < emitted
<1> DEFINE d == Head(fromEngine)
<1>1. Receive({"File"})
  BY DEF Receive
<1>2. Handled < emitted /\ d = Results[Handled + 1]
  BY <1>1, OutputReceived DEF ResultTypes
<1>3. ~output.debug_json
  BY <1>2, NextOutput DEF DInv, TypeInv, Delivery
<1>4. d \in FileMessages
  BY MessageContents DEF Receive, DInv, TypeInv, TypeOK, PipesTypeOK
<1>5. reported \in Seq(FromEngine) /\ OutputFiles \in Seq(FromEngine)
      /\ d \in FromEngine
  BY <1>4, HandledType, MessageTypes DEF DInv, TypeInv
<1> HIDE DEF d
<1>6. OutputFiles' = Append(OutputFiles, d)
  BY DEF d
<1>7. reported \o OutputFiles \in Seq(FromEngine)
      /\ reported \o OutputFiles' \in Seq(FromEngine)
      /\ reported \o OutputFiles' = Append(reported \o OutputFiles, d)
  BY <1>5, <1>6, ConcatAppend
<1>8. Delivered = reported \o OutputFiles /\ Delivered' = reported \o OutputFiles'
  BY <1>3, <1>7, ConcatEmpty DEF Delivered
<1> QED  BY <1>2, <1>7, <1>8 DEF d

LEMMA DebugStringDelivered ==
    ASSUME DInv, HandleDebugString
    PROVE  Delivered' = Append(Delivered, Head(fromEngine))
           /\ Head(fromEngine) = Results[Handled + 1] /\ Handled < emitted
           /\ Head(fromEngine).type # "Exit"
<1> DEFINE d == Head(fromEngine)
<1>1. /\ Receive({"DebugString"}) /\ d.type = "DebugString"
      /\ output' = [output EXCEPT !.debug_json = TRUE]
      /\ UNCHANGED <<options, reported, disk>>
  BY DEF HandleDebugString, Receive
<1>2. Handled < emitted /\ d = Results[Handled + 1]
  BY <1>1, OutputReceived DEF ResultTypes
<1>3. ~output.debug_json
  BY <1>1, <1>2, NextOutput DEF DInv, TypeInv, Delivery
<1>4. output \in [diagnostics : Seq(Diagnostics), files : Seq(FileMessages),
                  debug_json : BOOLEAN]
  BY DEF DInv, TypeInv, TypeOK, CargoTypeOK
<1>5. d = DebugString
  <2>1. d \in FromEngine
    BY DEF HandleDebugString, Receive, DInv, TypeInv, TypeOK, PipesTypeOK
  <2> HIDE DEF d
  <2> QED
    BY <1>1, <2>1 DEF FromEngine, Output, Diagnostics, FileMessages, Exit,
       Truncated, Request, RequestKinds, Profile, Items
<1>6. OutputFiles' = OutputFiles /\ output'.debug_json
  BY <1>1, <1>4 DEF OutputFiles
<1>7. reported \in Seq(FromEngine) /\ OutputFiles \in Seq(FromEngine)
  BY HandledType, MessageTypes DEF DInv, TypeInv
<1> DEFINE p == reported \o OutputFiles
<1>8. p \in Seq(FromEngine)
  BY <1>7
<1>9. Delivered = p \o <<>> /\ Delivered' = p \o <<DebugString>>
  BY <1>1, <1>3, <1>6 DEF Delivered, DebugString
<1> HIDE DEF p
<1>10. Delivered' = Append(Delivered, DebugString)
  BY <1>8, <1>9
<1> QED  BY <1>1, <1>2, <1>5, <1>10

\* What a delivery is to the session.
LEMMA DeliverStep ==
    ASSUME DInv, cargo_hax = "loop", UNCHANGED <<options, engineVars>>,
           Delivered' = Append(Delivered, Head(fromEngine)),
           Head(fromEngine) = Results[Handled + 1], Handled < emitted,
           Head(fromEngine).type # "Exit"
    PROVE  /\ cargo_hax' = "loop" => Session!Deliver
           /\ cargo_hax' = "panicked" => Session!Fail
<1>1. Len(Delivered) < Len(Announced)
      /\ Announced[Len(Delivered) + 1] = Head(fromEngine)
  BY NotExit, NextDelivered
<1>2. (emitted > 0)' = (emitted > 0) /\ Announced' = Announced
  BY ResultsStable DEF Announced, engineVars
<1>3. Outcome = "running" /\ (cargo_hax' = "loop" => Outcome' = "running")
      /\ (cargo_hax' = "panicked" => Outcome' = "failed")
  BY DEF Outcome
<1> QED
  BY <1>1, <1>2, <1>3 DEF Session!Deliver, Session!Fail, Announced, Outcome

\* Nothing is delivered: the session goes on, or it fails.
LEMMA NoDelivery ==
    ASSUME DInv, UNCHANGED <<options, reported, disk, output, engineVars>>,
           cargo_hax \in Running
    PROVE  /\ cargo_hax' \in Running => UNCHANGED Mapped
           /\ cargo_hax' \in {"exit1", "panicked", "killed"} => Session!Fail
<1>1. (emitted > 0)' = (emitted > 0) /\ Announced' = Announced
  BY ResultsStable DEF Announced, engineVars
<1>2. Delivered' = Delivered
  BY DEF Delivered, OutputFiles
<1>3. /\ Outcome = "running"
      /\ cargo_hax' \in Running => Outcome' = "running"
      /\ cargo_hax' \in {"exit1", "panicked", "killed"} => Outcome' = "failed"
  BY DEF Outcome, Running
<1>4. cargo_hax' \in Running => UNCHANGED Mapped
  BY <1>1, <1>2, <1>3 DEF Mapped
<1>5. cargo_hax' \in {"exit1", "panicked", "killed"} => Session!Fail
  BY <1>1, <1>2, <1>3 DEF Session!Fail, Announced, Outcome
<1> QED  BY <1>4, <1>5

\* run_engine returns once everything was delivered.
LEMMA WaitReturns ==
    ASSUME DInv, Wait, exitCode = 0
    PROVE  Session!Return
<1>1. /\ cargo_hax = "wait" /\ engine = "exited" /\ cargo_hax' = "returned"
      /\ UNCHANGED <<options, reported, disk, output, engineVars>>
  BY DEF Wait, EngineAlive
<1>2. Complete
  BY <1>1 DEF DInv, Ends, CargoEnds
<1>3. emitted > 0
  BY <1>2, ResultsType DEF Complete, DInv, TypeInv
<1>4. /\ reported = state /\ OutputFiles = files
      /\ output.debug_json = options.debug
  BY <1>2, AllHandled
<1>5. Delivered = state \o files
                    \o (IF options.debug THEN <<DebugString>> ELSE <<>>)
  BY <1>4 DEF Delivered
<1>6. Results = Delivered \o <<Exit>>
  BY <1>5 DEF Results
<1>7. Delivered \in Seq(FromEngine)
  <2> DEFINE dbg == IF options.debug THEN <<DebugString>> ELSE <<>>
  <2>1. dbg \in Seq(FromEngine)
    BY MessageTypes
  <2>2. state \in Seq(FromEngine) /\ files \in Seq(FromEngine)
    BY HandledType, MessageTypes DEF DInv, TypeInv
  <2>3. Delivered = state \o files \o dbg
    BY <1>5
  <2> HIDE DEF dbg
  <2> QED  BY <2>1, <2>2, <2>3
<1>8. Delivered = Announced
  <2>1. SubSeq(Delivered \o <<Exit>>, 1, Len(Delivered \o <<Exit>>) - 1) = Delivered
    BY <1>7
  <2> QED  BY <1>3, <1>6, <2>1 DEF Announced
<1>9. (emitted > 0)' = (emitted > 0) /\ Announced' = Announced
      /\ Delivered' = Delivered
  BY <1>1, ResultsStable DEF Announced, engineVars, Delivered, OutputFiles
<1>10. Outcome = "running" /\ Outcome' = "ok"
  BY <1>1 DEF Outcome
<1> QED
  BY <1>3, <1>8, <1>9, <1>10 DEF Session!Return, Announced, Outcome

LEMMA PanicFails ==
    ASSUME DInv, HandlerPanics
    PROVE  Session!Fail
<1>1. /\ cargo_hax = "loop" /\ cargo_hax' = "panicked"
      /\ UNCHANGED <<options, reported, output, engineVars>>
  BY DEF HandlerPanics, Receive
<1>2. CASE UNCHANGED disk
  BY <1>1, <1>2, NoDelivery DEF Running
<1>3. CASE /\ Head(fromEngine) \in FileMessages
           /\ disk' = Append(disk, Head(fromEngine))
  <2>1. Head(fromEngine).type = "File"
    BY <1>3 DEF FileMessages
  <2>2. ~options.dry_run /\ Receive({"File"})
    BY <2>1 DEF HandlerPanics, Receive, RequestKinds
  <2>3. OutputFiles' = Append(OutputFiles, Head(fromEngine))
    BY <1>1, <1>3, <2>2 DEF OutputFiles
  <2>4. Delivered' = Append(Delivered, Head(fromEngine))
        /\ Head(fromEngine) = Results[Handled + 1] /\ Handled < emitted
    BY <1>1, <2>1, <2>2, <2>3, FileDelivered
  <2> QED  BY <1>1, <2>1, <2>4, DeliverStep
<1> QED  BY <1>2, <1>3 DEF HandlerPanics

LEMMA CargoIsSession ==
    ASSUME DInv, CargoHax \/ CargoHaxKilled
    PROVE  Session!Next \/ UNCHANGED Mapped
<1> USE DEF Session!Next
<1>1. CASE HandleDiagnostic
  <2>1. cargo_hax = "loop" /\ cargo_hax' = "loop"
        /\ UNCHANGED <<options, engineVars>>
    BY <1>1 DEF HandleDiagnostic, Receive
  <2> QED  BY <1>1, <2>1, DiagnosticDelivered, DeliverStep
<1>2. CASE HandleFile
  <2>1. /\ cargo_hax = "loop" /\ cargo_hax' = "loop"
        /\ UNCHANGED <<options, reported, engineVars>>
        /\ Receive({"File"}) /\ Head(fromEngine).type = "File"
        /\ IF options.dry_run
             THEN /\ output' = [output EXCEPT !.files =
                                    Append(@, Head(fromEngine))]
                  /\ UNCHANGED disk
             ELSE /\ disk' = Append(disk, Head(fromEngine))
                  /\ UNCHANGED output
    BY <1>2 DEF HandleFile, Receive
  <2>2. output \in [diagnostics : Seq(Diagnostics), files : Seq(FileMessages),
                    debug_json : BOOLEAN]
    BY DEF DInv, TypeInv, TypeOK, CargoTypeOK
  <2>3. /\ OutputFiles' = Append(OutputFiles, Head(fromEngine))
        /\ output'.debug_json = output.debug_json
    BY <2>1, <2>2 DEF OutputFiles
  <2> QED  BY <2>1, <2>3, FileDelivered, DeliverStep
<1>3. CASE HandleDebugString
  <2>1. cargo_hax = "loop" /\ cargo_hax' = "loop"
        /\ UNCHANGED <<options, engineVars>>
    BY <1>3 DEF HandleDebugString, Receive
  <2> QED  BY <1>3, <2>1, DebugStringDelivered, DeliverStep
<1>4. CASE HandlerPanics
  BY <1>4, PanicFails
<1>5. CASE Wait
  <2>1. CASE exitCode = 0
    BY <1>5, <2>1, WaitReturns
  <2>2. CASE exitCode # 0
    BY <1>5, <2>2, NoDelivery DEF Wait, Running
  <2> QED  BY <2>1, <2>2
<1>6. CASE SendOptions
  BY <1>6, NoDelivery DEF SendOptions, Running
<1>7. CASE SendFails
  BY <1>7, NoDelivery DEF SendFails, Running
<1>8. CASE HandleRequest \/ HandleProfilingData
  <2>1. UNCHANGED <<options, cargoVars, engineVars>> /\ cargo_hax = "loop"
    BY <1>8 DEF HandleRequest, HandleProfilingData, Receive
  <2> QED  BY <2>1, NoDelivery DEF cargoVars, Running
<1>9. CASE HandleItemProcessed
  BY <1>9, NoDelivery DEF HandleItemProcessed, Receive, Running
<1>10. CASE HandleExit
  BY <1>10, NoDelivery DEF HandleExit, Receive, Running
<1>11. CASE EndOfOutput
  BY <1>11, NoDelivery DEF EndOfOutput, Running
<1>12. CASE Stats
  BY <1>12, NoDelivery DEF Stats, Running
<1>13. CASE CargoHaxKilled
  BY <1>13, NoDelivery DEF CargoHaxKilled, Running
<1> QED
  BY <1>1, <1>2, <1>3, <1>4, <1>5, <1>6, <1>7, <1>8, <1>9, <1>10, <1>11,
     <1>12, <1>13 DEF CargoHax

-----------------------------------------------------------------------------

LEMMA InitSession == Init => Session!Init
<1> SUFFICES ASSUME Init PROVE Session!Init
  OBVIOUS
<1>1. Delivered = <<>>
  BY DEF Init, Delivered, OutputFiles, EmptyOutput
<1>2. Outcome = "running" /\ ~(emitted > 0)
  BY DEF Init, Outcome
<1> QED
  BY <1>1, <1>2 DEF Session!Init, Outcome

LEMMA NextSession ==
    DInv /\ TypeInv' /\ [Next]_vars => Session!Next \/ UNCHANGED Mapped
<1> SUFFICES ASSUME DInv, TypeInv', [Next]_vars
             PROVE  Session!Next \/ UNCHANGED Mapped
  OBVIOUS
<1>1. CASE Emit
  BY <1>1, EmitComputes DEF Session!Next
<1>2. CASE (Engine \/ Killed) /\ ~Emit
  BY <1>2, EngineIsSilent
<1>3. CASE CargoHax \/ CargoHaxKilled
  BY <1>3, CargoIsSession
<1>4. CASE UNCHANGED vars
  BY <1>4, ResultsStable DEF vars, cargoVars, engineVars, Mapped, Announced,
     Delivered, OutputFiles, Outcome
<1> QED  BY <1>1, <1>2, <1>3, <1>4 DEF Next, Terminated

\* A session of the two programs is one of the abstract session: the outputs
\* are computed once, delivered one at a time and in order, and run_engine
\* returns normally only after the last.
THEOREM SessionIsImplemented ==
    Spec => Session!Init /\ [][Session!Next]_(Session!vars)
<1>1. DInv /\ DInv' /\ [Next]_vars => [Session!Next]_(Session!vars)
  BY NextSession, MappedVars DEF DInv
<1> QED  BY <1>1, InitSession, Invariant, PTL DEF Spec
=============================================================================
