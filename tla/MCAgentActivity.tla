-------------------------- MODULE MCAgentActivity --------------------------
(***************************************************************************)
(* Small instances of AgentActivity.  Speech identities are drawn in a     *)
(* fixed order (NewHandle), so no symmetry set is needed.                  *)
(***************************************************************************)
EXTENDS AgentActivity

CONSTANTS h1, h2, h3

TwoHandles == {h1, h2}
ThreeHandles == {h1, h2, h3}

BothAllow == {TRUE, FALSE}
AllowOnly == {TRUE}

NormalOnly == {NORMAL}

\* What the application and its user do in an instance.
Everything == AllCalls
RepliesAndDrain == {"generate_reply", "drain"}

=============================================================================
