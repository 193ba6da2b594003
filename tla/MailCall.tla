-------------------------------- MODULE MailCall ------------------------------
(***************************************************************************)
(* What a call to notification-service promises the service that makes it: *)
(* an answer without error means the mail was handed over.  An error means *)
(* nothing: the mail may have gone out, or still may.                      *)
(***************************************************************************)
CONSTANT Mail        \* one call each

VARIABLES
    handed,          \* mails the provider has taken, to deliver
    told             \* what the caller knows: no answer yet, "ok" or "error"

vars == <<handed, told>>

Init == handed = {} /\ told = [m \in Mail |-> "no"]

HandOver(m) ==
    /\ m \notin handed
    /\ handed' = handed \union {m}
    /\ UNCHANGED told

TellOk(m) ==
    /\ told[m] = "no" /\ m \in handed
    /\ told' = [told EXCEPT ![m] = "ok"]
    /\ UNCHANGED handed

TellError(m) ==
    /\ told[m] = "no"
    /\ told' = [told EXCEPT ![m] = "error"]
    /\ UNCHANGED handed

Next == \E m \in Mail : HandOver(m) \/ TellOk(m) \/ TellError(m)

Spec == Init /\ [][Next]_vars

=============================================================================
