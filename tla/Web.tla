-------------------------------- MODULE Web --------------------------------
(***************************************************************************)
(* The web client: one of its pages at work (WebPage), or the session that *)
(* all their calls share (WebSession).  A behaviour looks at one of the    *)
(* two, for the life of the tab: WebPage takes for a failed call whatever  *)
(* WebSession says of its refusal.                                         *)
(***************************************************************************)
EXTENDS WebPage, WebSession

webVars == <<pageVars, sessionVars>>

WebInit ==
  /\ PageInit /\ SessionInit
  /\ page = "session" => visitor = CHOOSE v \in Visitors : TRUE

WebNext ==
  \/ page # "session" /\ PageNext /\ UNCHANGED sessionVars
  \/ page = "session" /\ SessionNext /\ UNCHANGED pageVars

Spec == WebInit /\ [][WebNext]_webVars
=============================================================================
