---------------------------- MODULE MCMlrsClient ----------------------------
(***************************************************************************)
(* Model checking MlrsClient: two parameters, one of them a long list, and *)
(* the commands Save and Bind.                                             *)
(***************************************************************************)
EXTENDS MlrsClient

MCParts == <<3, 2>>
MCCommands == {"Save", "Bind"}
MCRequests ==
  {[op |-> "devices"], [op |-> "params"], [op |-> "get", id |-> 1]}
    \cup [op : {"set"}, id : {0}, arg : Values \cup {None}]
    \cup [op : {"command"}, id : {"Save"}, arg : {"START", "CONFIRM", "CANCEL"}]
    \cup [op : {"command"}, id : {"Bind"}, arg : {"START"}]
=============================================================================
