----------------------------- MODULE MCAccounts -----------------------------
(***************************************************************************)
(* Accounts, the provider's keys their OIDC logins are verified with, their*)
(* preferences and the settings that give new accounts a default.  The     *)
(* modules share no variable: a behaviour is one of one of them, and the   *)
(* rest stays in one initial state.                                        *)
(***************************************************************************)
EXTENDS Accounts, OidcKeys, Preferences, SystemSettings, TLC

VARIABLE part

partVars == <<accountsVars, keysVars, prefsVars, settingsVars, part>>

PartsInit ==
  /\ part \in {"accounts", "keys", "preferences", "settings"}
  /\ AccountsInit /\ KeysInit /\ PrefsInit /\ SettingsInit
  /\ part # "accounts" => open
  /\ part # "keys" => published = Key
  /\ part # "preferences" => default = "shown" /\ Accounts = {}

PartsNext ==
  /\ UNCHANGED part
  /\ \/ /\ part = "accounts" /\ AccountsNext
        /\ UNCHANGED <<keysVars, prefsVars, settingsVars>>
     \/ /\ part = "keys" /\ KeysNext
        /\ UNCHANGED <<accountsVars, prefsVars, settingsVars>>
     \/ /\ part = "preferences" /\ PrefsNext
        /\ UNCHANGED <<accountsVars, keysVars, settingsVars>>
     \/ /\ part = "settings" /\ SettingsNext
        /\ UNCHANGED <<accountsVars, keysVars, prefsVars>>

PartsSpec == PartsInit /\ [][PartsNext]_partVars

\* Every variable stays in its type.
PartsTypeOK == AccountsTypeOK /\ KeysTypeOK /\ PrefsTypeOK /\ SettingsTypeOK

\* What may be renamed: Call and Verification are Request in the cfg, so that
\* one permutation serves registrations, OIDC logins and PATCHes of /api/me.
Symmetry == Permutations(Request) \cup Permutations(Patching)
=============================================================================
