---------------------------- MODULE MCComponents ----------------------------
(***************************************************************************)
(* The components that share no state with the others, side by side: an    *)
(* initial state picks one, and its steps are the steps of the system.     *)
(***************************************************************************)
EXTENDS BrowserProfile, McpClient, LoginPage, UpstreamEvents, JsonRepair, ToolCalls

CONSTANT Parts  \* the components to pick from

VARIABLE part

\* What a reading of the login page may show.
Pages == [captcha : BOOLEAN, phrases : {{}, {"ban"}, {"credential"}, {"captcha"},
                                        {"ban", "credential"}},
          token : Token, signIn : BOOLEAN]

\* Envelopes without data, and with data that may say more than the rest.
NoData == [code : {"", "0", "5", "7", "40003"}, msg : Said,
           inner : {FALSE}, biz : {"absent"}, bizMsg : {""}, muted : {"absent"},
           until : {FALSE}]
WithData == [code : {"", "7", "40003"}, msg : {"", "plain"}, inner : {TRUE},
             biz : {"absent", "0", "5", "40003"}, bizMsg : {"", "ban"},
             muted : {"absent", "direct", "chat"}, until : BOOLEAN]
SentEnvelopes == NoData \cup {e \in WithData : e.muted = "absent" => ~e.until}

\* Known and unknown tools, a name in the wrong case, arguments over the limit.
Full(name) == Call(name, Args(name, "full"))
Big(name) == Call(name, Args(name, "big"))
OfferedTools == {{"read"}, {"read", "write"}}
WantedCalls ==
  {<<Full("read")>>, <<Full("READ")>>, <<Full("write")>>, <<Full("other")>>, <<Big("read")>>,
   <<Full("read"), Full("write")>>, <<Full("other"), Full("read")>>,
   <<Big("read"), Full("READ")>>, <<Full("write"), Full("other")>>}

-----------------------------------------------------------------------------

Init ==
  /\ part \in Parts
  /\ ProfileInit /\ McpInit /\ LoginInit /\ UpstreamInit /\ RepairInit /\ ToolInit

ProfilePart ==
  /\ part = "profile" /\ ProfileNext
  /\ UNCHANGED <<part, mcpVars, loginVars, upstreamVars, text, toolVars>>

McpPart ==
  /\ part = "mcp" /\ McpNext
  /\ UNCHANGED <<part, profileVars, loginVars, upstreamVars, text, toolVars>>

LoginPart ==
  /\ part = "login" /\ LoginNext
  /\ UNCHANGED <<part, profileVars, mcpVars, upstreamVars, text, toolVars>>

UpstreamPart ==
  /\ part = "upstream" /\ UpstreamNext
  /\ UNCHANGED <<part, profileVars, mcpVars, loginVars, text, toolVars>>

RepairPart ==
  /\ part = "repair" /\ RepairNext
  /\ UNCHANGED <<part, profileVars, mcpVars, loginVars, upstreamVars, toolVars>>

ToolsPart ==
  /\ part = "tools" /\ ToolNext
  /\ UNCHANGED <<part, profileVars, mcpVars, loginVars, upstreamVars, text>>

Next ==
  \/ ProfilePart \/ McpPart \/ LoginPart \/ UpstreamPart \/ RepairPart \/ ToolsPart

Spec ==
  /\ Init /\ [][Next]_<<part, profileVars, mcpVars, loginVars, upstreamVars, text, toolVars>>
  /\ ProfileFairness /\ McpFairness

(* Every component's variables stay in their types.                        *)
ComponentsTypeOK ==
  /\ ProfileTypeOK /\ McpTypeOK /\ LoginTypeOK /\ UpstreamTypeOK /\ RepairTypeOK

(* Whoever waits for a browser comes back: warmups and logins that queue   *)
(* for the profile (obscura_bridge.py, auth.py), and calls whose child     *)
(* answers late, dies or is closed (mcp_client.py).                        *)
EveryCallerReturns == ProfileCallsReturn /\ McpCallsReturn
=============================================================================
