---------------------------- MODULE MCWebConsole ----------------------------
(* Two modules, a tab opened at the console's address or at a server page   *)
(* of no module, with no fragment or that of a saved address.  Each kind of *)
(* browser has a bound of its own: the fragment multiplies the states.      *)
EXTENDS WebConsole, TLC

CONSTANTS a, b

ModuleLuids == {a, b}
AllApis == {"html5", "html4", "poll"}
Addresses == {[url |-> "home", hash |-> None], [url |-> "server", hash |-> None],
              [url |-> "home", hash |-> ServerOf(a)]}
InputsByApi == "html5" :> 3 @@ "html4" :> 2 @@ "poll" :> 2
=============================================================================
