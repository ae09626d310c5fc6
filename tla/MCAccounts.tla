----------------------------- MODULE MCAccounts -----------------------------
(***************************************************************************)
(* The two account programs, one per behaviour.  For the Python service:   *)
(* two sites, one key that is no string, one of them also as a number, one *)
(* account to begin with.  For the Java site: two pages, a password that   *)
(* is trimmed to another, and one too wide to encrypt.                     *)
(***************************************************************************)
EXTENDS AccountStore, AccountSite, TLC

VARIABLE part    \* the program that runs

MCAsString == [k \in {"number163"} |-> "163"]
MCInitial == [k \in {"weibo"} |-> [siteName |-> "weibo", value |-> "a"]]

MCTrimmed == [t \in Passwords |-> IF t = "pass " THEN "pass" ELSE t]
MCSymmetry == Permutations(Pages)

\* Neither tidy nor calm becomes true again, and no invariant of the site says
\* anything of a state where both are false, nor of what follows it.  Users who
\* wait for each call make a third one.
MCWatched == calm \/ (tidy /\ clicks < 3)

AccountsInit == part \in {"AccountStore", "AccountSite"} /\ Init /\ SiteInit

AccountsNext ==
  \/ part = "AccountStore" /\ Next /\ UNCHANGED <<part, siteVars>>
  \/ part = "AccountSite" /\ SiteNext /\ UNCHANGED <<part, vars>>

AccountsSpec == AccountsInit /\ [][AccountsNext]_<<part, vars, siteVars>>
=============================================================================
