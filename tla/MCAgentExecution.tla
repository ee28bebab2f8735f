--------------------------- MODULE MCAgentExecution ---------------------------
(***************************************************************************)
(* Requests for the tools of app/agent/tool_catalog.py, under a policy     *)
(* that allows both: a lookup, well-formed and not, an update, the same    *)
(* update with another payload, one by an actor without the capability for *)
(* it, and one that names no resource.  One of the updates is approved,    *)
(* for one unit of time.                                                   *)
(***************************************************************************)
EXTENDS AgentExecution, TLC

LookupTool ==
  [name |-> "vendor.lookup", version |-> "1.0", side_effect |-> "read",
   risk |-> "low", required_capabilities |-> {"vendor.read"},
   scope_level |-> "workspace", accepts |-> {"vendor_1"}]

UpdateTool ==
  [name |-> "vendor.update", version |-> "1.0", side_effect |-> "write",
   risk |-> "high", required_capabilities |-> {"vendor.write"},
   scope_level |-> "resource", accepts |-> {"active", "blocked"}]

Request(tool, payload, resource, capabilities) ==
  [organization_id |-> "org", workspace_id |-> "ws", actor_id |-> "actor",
   action |-> tool.name, tool |-> tool, input_payload |-> payload,
   capabilities |-> capabilities, resource_id |-> resource]

Block == Request(UpdateTool, "blocked", "v1", {"vendor.write"})

MCRequests ==
  {Request(LookupTool, "vendor_1", None, {"vendor.read"}),
   Request(LookupTool, "garbled", None, {"vendor.read"}),
   Block,
   Request(UpdateTool, "active", "v1", {"vendor.write"}),
   Request(UpdateTool, "blocked", "v1", {}),
   Request(UpdateTool, "blocked", None, {"vendor.write"})}

MCGrants == {[approves |-> Block, lifetime |-> 1]}

MCPolicy ==
  [allowed_capabilities |-> {"vendor.read", "vendor.write"},
   max_risk |-> "high", writable_actions |-> {"vendor.update"},
   require_approval_for_writes |-> TRUE, allowed_resource_ids |-> {"v1"}]

Symmetry == Permutations(Keys)

===============================================================================
