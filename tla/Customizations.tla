-------------------------- MODULE Customizations --------------------------
(***************************************************************************)
(* The customizations of a session: plugins and directories that contain   *)
(* agents, skills, prompts, rules, hooks and MCP servers, and MCP servers  *)
(* at the top level.  The operators are what channels-session/reducer.ts   *)
(* does to the list; which containers each of them looks into is not the   *)
(* same for all, and is kept.                                              *)
(***************************************************************************)
EXTENDS KeyedLists

CONSTANTS CustomizationId, None

CustomizationType == {"plugin", "directory", "mcpServer", "child"}
McpServerStatus == {"starting", "ready", "authRequired", "error", "stopped"}

\* One record for every type; a field a type does not have is None.  enablement: the explicit
\* decisions, most specific first, or the one legacy `enabled' flag.  children: None is unparsed.
McpServer(id, status, channel) ==
  [id |-> id, type |-> "mcpServer", enablement |-> <<>>, state |-> status,
   channel |-> channel, children |-> None]
Child(id) ==
  [id |-> id, type |-> "child", enablement |-> <<TRUE>>, state |-> None,
   channel |-> None, children |-> None]
Container(id, type, children) ==
  [id |-> id, type |-> type, enablement |-> <<>>, state |-> None,
   channel |-> None, children |-> children]

IsMcp(c) == c.type = "mcpServer"

\* The containers whose children a lookup may enter, at their first child with this id.
HasChild(c, id) == ~IsMcp(c) /\ c.children # None /\ id \in Ids(c.children)

InChild(c, id, Change(_)) ==
  [c EXCEPT !.children = [@ EXCEPT ![IndexOfId(@, id)] = Change(@)]]

\* A top-level server is updated; without one, the server is updated in every container that has
\* it.  An entry of another type with this id stays as it is.
UpdateMcpServerCustomization(list, id, Update(_)) ==
  LET OnMcp(c) == IF IsMcp(c) THEN Update(c) ELSE c
  IN  IF id \in Ids(list)
      THEN ReplaceAt(list, IndexOfId(list, id), OnMcp(list[IndexOfId(list, id)]))
      ELSE [i \in DOMAIN list |->
              IF HasChild(list[i], id) THEN InChild(list[i], id, OnMcp) ELSE list[i]]

\* Plugins and MCP servers keep the decisions; the other types keep the first one as `enabled'.
ApplyCustomizationEnablement(c, enablement) ==
  [c EXCEPT !.enablement =
     IF c.type \in {"plugin", "mcpServer"} THEN enablement
     ELSE IF enablement = <<>> THEN <<TRUE>> ELSE <<Head(enablement)>>]

\* The top-level entry, else the child in the first container that has it.
ToggleCustomization(list, id, enablement) ==
  LET Toggle(c) == ApplyCustomizationEnablement(c, enablement)
      at == SelectInSeq(list, LAMBDA c : HasChild(c, id))
  IN  IF id \in Ids(list)
      THEN ReplaceAt(list, IndexOfId(list, id), Toggle(list[IndexOfId(list, id)]))
      ELSE IF at = 0 THEN list
      ELSE ReplaceAt(list, at, InChild(list[at], id, Toggle))

\* The top-level entry with its children, else the child in every container that has it.
RemoveCustomization(list, id) ==
  IF id \in Ids(list) THEN RemoveId(list, id)
  ELSE [i \in DOMAIN list |->
          IF HasChild(list[i], id) THEN [list[i] EXCEPT !.children = RemoveId(@, id)]
          ELSE list[i]]

\* Every entry of the list and of its containers.
AllCustomizations(list) ==
  ToSet(list) \cup UNION {ToSet(c.children) : c \in {d \in ToSet(list) : d.children # None}}
=============================================================================
