----------------------------- MODULE MCSubject ------------------------------
(* Each behaviour of an instance is one of the component that `subject`    *)
(* names, among those in Subjects; the variables of the others stand still. *)
CONSTANT Subjects

VARIABLE subject

On(component) == subject = component
=============================================================================
