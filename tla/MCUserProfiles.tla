--------------------------- MODULE MCUserProfiles ---------------------------
(***************************************************************************)
(* Small instances of UserProfiles.  profile1 and profile2 change columns  *)
(* that overlap, verify, language and theme are the other commands of the  *)
(* same user, and bad gives a value that validation refuses.               *)
(***************************************************************************)
EXTENDS UserProfiles

CONSTANTS profile1, profile2, verify, language, theme, bad, user

MCKindOf ==
  [c \in Commands |-> CASE c = verify -> "verify" [] c = language -> "language"
                        [] c = theme -> "theme" [] OTHER -> "profile"]

MCUserOf == [c \in Commands |-> user]

MCGives ==
  [c \in Commands |-> CASE c = profile1 -> {"phone", "avatar"}
                        [] c = profile2 -> {"phone", "dob"}
                        [] c = verify   -> {}
                        [] c = language -> {"language"}
                        [] c = theme    -> {"theme"}
                        [] OTHER        -> {"avatar"}]

(* Four methods of rpc.controller.ts call themselves.  Two of them are     *)
(* left so here; verify and language reach their handlers, which would     *)
(* otherwise stay unchecked.                                               *)
MCRecursive == {"theme", "notification"}
=============================================================================
