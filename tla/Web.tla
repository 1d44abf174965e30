-------------------------------- MODULE Web ---------------------------------
(***************************************************************************)
(* The components behind the web server, side by side.  Each module is a   *)
(* view of the tables its properties are about; where two views show the   *)
(* same table (the sessions, the second factor of an account), what one    *)
(* does to it is an action of the other too.  So nothing in a view depends *)
(* on the state of another, and here one of them, `part`, moves while the  *)
(* others rest in a first state: each component is checked by itself, with *)
(* one set of request threads and addresses.                               *)
(***************************************************************************)
EXTENDS Lockout, Totp, Resets, Sessions, ApiKeys, Layout, Geo, Stats, Server

CONSTANT Parts  \* the components that are tried

VARIABLE part

webVars == <<part, lockVars, totpVars, resetVars, sessVars, keyVars, layoutVars,
             geoVars, statsVars, serverVars>>

\* The rest of the state while another part moves.
Rests(p, v) == IF part = p THEN TRUE ELSE UNCHANGED v

WebInit ==
  /\ part \in Parts
  /\ LayoutInit /\ (part = "layout" \/ (file = FileOf(<<>>) /\ devices = {}))
  /\ GeoInit /\ (part = "geo" \/ (delegated = {} /\ readable = Families))
  /\ LockInit /\ TotpInit /\ ResetsInit /\ SessionsInit /\ KeysInit
  /\ StatsInit /\ ServerInit

WebNext ==
  /\ \/ part = "lockout" /\ LockNext
     \/ part = "totp" /\ TotpNext
     \/ part = "resets" /\ ResetsNext
     \/ part = "sessions" /\ SessionsNext
     \/ part = "keys" /\ KeysNext
     \/ part = "layout" /\ LayoutNext
     \/ part = "geo" /\ GeoNext
     \/ part = "stats" /\ StatsNext
     \/ part = "server" /\ ServerNext
  /\ Rests("lockout", lockVars) /\ Rests("totp", totpVars) /\ Rests("resets", resetVars)
  /\ Rests("sessions", sessVars) /\ Rests("keys", keyVars)
  /\ Rests("layout", layoutVars) /\ Rests("geo", geoVars) /\ Rests("stats", statsVars)
  /\ Rests("server", serverVars)
  /\ UNCHANGED part

WebSpec == WebInit /\ [][WebNext]_webVars
=============================================================================
