--------------------------- MODULE MCClassLayout ---------------------------
(***************************************************************************)
(* Files whose fields mix every width, in orders that are not the order of  *)
(* the sections, stacked three deep with every file above every other.      *)
(***************************************************************************)
EXTENDS ClassLayout

Nothing == [statics |-> <<>>, fields |-> <<>>, methods |-> <<>>,
            class_references |-> 7, imports |-> 0, string_words |-> 1]

Method(virtual, words) == [virtual |-> virtual, words |-> words]

Mixed == [Nothing EXCEPT !.fields = <<BYTE, OBJECT, SHORT, DOUBLE, FLOAT>>,
                         !.statics = <<BYTE>>, !.imports = 1]

Small == [Nothing EXCEPT !.fields = <<INT, BYTE, BYTE>>, !.class_references = 8,
                         !.methods = <<Method(TRUE, 2), Method(FALSE, 3)>>]

Wide == [Nothing EXCEPT !.fields = <<LONG, OBJECT, OBJECT>>, !.statics = <<OBJECT, INT, LONG>>,
                        !.methods = <<Method(TRUE, 2)>>]

Virtuals == [Nothing EXCEPT !.methods = <<Method(TRUE, 2), Method(TRUE, 2)>>]

Regulars == [Nothing EXCEPT !.methods = <<Method(TRUE, 2), Method(FALSE, 1)>>,
                            !.imports = 3]

LayoutFiles == {Nothing, Mixed, Small, Wide, Virtuals, Regulars}
=============================================================================
