------------------------------- MODULE MCState -------------------------------
(***************************************************************************)
(* The state the inspector rebuilds: how events move the resources of a    *)
(* replay (StateRoutes), and what the reducers make of each resource       *)
(* (Channels).  A behaviour is a replay, or one channel.                   *)
(***************************************************************************)
EXTENDS StateRoutes, Channels

stateVars == <<ctx, channel, state>>

StateInit ==
  /\ Init
  /\ \/ channel = "none" /\ state = None
     \/ ChannelInit

StateNext ==
  \/ channel = "none" /\ Next /\ UNCHANGED <<channel, state>>
  \/ channel # "none" /\ ChannelNext /\ UNCHANGED ctx

StateSpec == StateInit /\ [][StateNext]_stateVars
=============================================================================
