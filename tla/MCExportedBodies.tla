-------------------------- MODULE MCExportedBodies --------------------------
(* Bodies are exported as THIR, as MIR or as both (`--kind` of `cargo hax   *)
(* json`), each form from what rustc has and without a look at the other.   *)
(* A behaviour is that of one constant, of one body in MIR, or of one in    *)
(* THIR, which goes on through the engine.                                  *)
EXTENDS MCMir

CONSTANTS NoId, Fuel \* those of Thir
VARIABLES body, current, thir_stage

\* The bodies are written with the nodes of Thir, and are no more than that.
Written == INSTANCE MCThir WITH Bodies <- {}, Vars <- {}, Inputs <- {}
Thir == INSTANCE Thir WITH Bodies <- Written!MCBodies, Vars <- Written!MCVars,
                           Inputs <- Written!MCInputs, stage <- thir_stage

thirVars == <<body, current, thir_stage>>

BodiesInit ==
    \/ MirInit /\ body = None /\ current = None /\ thir_stage = "none"
    \/ /\ Thir!Init
       /\ constant = NoConstant /\ stage = "none" /\ source = None /\ mir = None
       /\ exported = None /\ imported = None /\ pattern = None

BodiesNext == \/ MirNext /\ UNCHANGED thirVars
              \/ Thir!Next /\ UNCHANGED <<vars, mirVars>>

BodiesSpec == BodiesInit /\ [][BodiesNext]_<<vars, mirVars, thirVars>>

-----------------------------------------------------------------------------

\* What a body in THIR means is kept by the exporter, the importer and the three
\* phases after them, but for the constructions Thir names.
MeaningIsKept == Thir!MeaningIsKept

\* A body in THIR stops the exporter, or fails in the engine, only where
\* something in it cannot be translated.
BodyErrorsAreExplained == Thir!BodyErrorsAreExplained
=============================================================================
