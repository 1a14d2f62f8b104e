--------------------------- MODULE MCReviewStudio ---------------------------
(* Small instances of the local Review Studio server. *)
EXTENDS ReviewStudio

\* Each fault with the calls it interacts with.
EachFault ==
    {<<{"thread"}, {"copper", "import", "inline"}>>, <<{"thread", "error"}, {"pcb", "eco"}>>,
     <<{"hang"}, {"copper", "import"}>>, <<{"hang"}, {"pcb", "eco"}>>,
     <<{"die"}, {"copper", "eco"}>>, <<{"die"}, {"import", "delete"}>>,
     <<{"edit"}, {"import", "restore", "delete"}>>, <<{}, {"import", "delete"}>>,
     <<{"stall"}, {"import", "inline"}>>, <<{"render"}, {"import", "delete"}>>,
     <<{"keep"}, {"import", "delete"}>>, <<{"keep"}, {"copper"}>>}

\* An import whose page cannot be rendered.
Renders == {<<{"render"}, {"import"}>>}
=============================================================================
