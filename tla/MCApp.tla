------------------------------- MODULE MCApp -------------------------------
(***************************************************************************)
(* Small machines for the application.                                     *)
(***************************************************************************)
EXTENDS App

\* Two cores for the I/Os and one for the second mapping; a core listed twice,
\* in the second partition and in the first one.
SmallTables == { << <<1, 2>>, <<3>> >>,
                 << <<2>>, <<3, 2, 1>> >>,
                 << <<1, 1>>, <<2>> >> }

\* The first of them alone.
OneTable == { << <<1, 2>>, <<3>> >> }
=============================================================================
