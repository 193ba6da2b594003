------------------------------ MODULE MCAdminMail -----------------------------
(***************************************************************************)
(* Two users, one item, one attempt and one change of a setting.  Attempts *)
(* share nothing but the settings and the addresses they read, so a second *)
(* one adds no behaviour that a property could tell.                       *)
(***************************************************************************)
EXTENDS AdminMail

MCMail == Attempt \X User

=============================================================================
