----------------------------- MODULE MCAnswers -----------------------------
(* Answers on small instances. *)
EXTENDS Answers

\* A parent and its children, whose order as text would differ from their order
\* as numbers
SmallNames == {<<1>>, <<1, 2>>, <<1, 10>>}

R(from, include, to) == [from |-> from, include |-> include, to |-> to]

\* One column with no end; two, of which one begins at an item, includes it and
\* ends before another.
SmallColumns ==
  { <<R(<<>>, FALSE, NoTo)>>,
    <<R(<<1>>, TRUE, <<1, 10>>), R(<<1, 2>>, FALSE, NoTo)>> }
=============================================================================
