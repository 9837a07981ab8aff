------------------------------- MODULE MCPrintf -------------------------------
(***************************************************************************)
(* A screen of three rows and two columns, whose last cell has the number  *)
(* 5 in registers of four values, as 1999 has in registers of 256; a       *)
(* buffer of two characters and ints of five bits.                         *)
(***************************************************************************)
EXTENDS Printf

ScreenPicture == [k \in Cells |-> 200 + k]

D(kind, arg) == [kind |-> kind, arg |-> arg]
A == D("literal", <<65>>)
B == D("c", <<66>>)
EOL == D("literal", <<Newline>>)

\* The smallest and the largest numbers of each length and sign, and mixtures
\* of all directives around the length of the buffer.
SomeFormats ==
  {<<D("d", <<n>>)>> : n \in {-16, -10, -9, -1, 0, 9, 10, 15}}
    \cup {<<D("x", <<n>>)>> : n \in {-16, -1, 0, 9, 15}}
    \cup {<<>>, <<A>>, <<EOL>>, <<A, B, EOL>>, <<D("%", <<>>), A, D("end", <<>>)>>,
          <<A, D("other", <<>>), B, A>>, <<D("s", <<97, 98>>), A>>,
          <<A, D("s", <<97>>), B, B>>, <<A, B, A, D("s", <<>>), EOL>>,
          <<B, D("d", <<-12>>), EOL, D("x", <<-1>>)>>}

SomeStrings == {<<>>, <<97, Newline, Newline, 98>>}

SomePoints == {<<0, 1>>, <<2, 1>>, <<3, 0>>, <<0, 2>>}
=============================================================================
