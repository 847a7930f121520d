------------------------------- MODULE MCTool -------------------------------
(* The parts of the tool: it reads schemas, prints files, and in these is   *)
(* code for JSON. They meet in that what the reader leaves is what is       *)
(* printed (ItemsConserved), and that only whole files hold the code        *)
(* (RunRepairs); part is the one that moves. While another moves, a part is *)
(* as its initial condition has it: no file was read, the tool has not run  *)
(* yet, the code has not begun.                                             *)
EXTENDS MCSchemaRows, OutputFiles, Codec

VARIABLE part

TwoMembers == <<"acl", "b">>

toolVars == <<part, vars, codecVars, outVars>>

ToolInit ==
    /\ Init /\ OutInit /\ CodecInit
    /\ part \in {"rows", "codec", "output"}
    /\ part # "output" => schema = CHOOSE s \in Schemas : TRUE

ToolNext ==
    /\ \/ part = "rows" /\ Next /\ UNCHANGED <<outVars, codecVars>>
       \/ part = "codec" /\ CodecNext /\ UNCHANGED <<vars, outVars>>
       \/ part = "output" /\ OutNext /\ UNCHANGED <<vars, codecVars>>
    /\ UNCHANGED part

ToolSpec == ToolInit /\ [][ToolNext]_toolVars
=============================================================================
