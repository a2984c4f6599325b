------------------------------- MODULE Pages --------------------------------
(***************************************************************************)
(* The pages that ask the server for free times, open side by side: the    *)
(* booking page (Wizard) and a form that moves or makes a booking          *)
(* (SlotForm).  They share the promise that a time is taken for what it    *)
(* was asked for, and no state.                                            *)
(***************************************************************************)
EXTENDS Wizard, SlotForm

PagesInit == WizardInit /\ FormInit

PagesNext ==
    \/ WizardNext /\ UNCHANGED formVars
    \/ FormNext /\ UNCHANGED wvars

PagesSpec == PagesInit /\ [][PagesNext]_<<wvars, formVars>>

(***************************************************************************)
(* However late and out of order the answers come, the times shown on the  *)
(* booking page and the time chosen there are those of the selection it    *)
(* shows, and a form asks the server for what its fields say unless a      *)
(* field was changed while times were being read.                          *)
(***************************************************************************)
ShownForSelection == PageShowsSelection /\ AskedAsShown
=============================================================================
