--------------------------- MODULE MCPatternSearch ---------------------------
(***************************************************************************)
(* Patterns over two bytes: all short sequences of items, and captures and *)
(* back-references around them; all subjects up to a length.               *)
(***************************************************************************)
EXTENDS PatternSearch

A == {"a"}
B == {"b"}
AB == {"a", "b"}

Repeated == {One(A, "*"), One(AB, "-"), One(AB, "+"), One(B, "?"), One(A, "")}

Special == {Balance("a", "b"), Frontier(B),
            Frontier({"a", NUL}), Position}

UpTo(set, n) == UNION {[1..k -> set] : k \in 0..n}

Short == {p \o q : p \in UpTo(Repeated \cup Special, 2), q \in {<<>>, <<EndAnchor>>}}

\* (p) q %1, and (p (q) ) %2, with what can fail after a capture is closed.
Captured(p) == <<Opening>> \o p \o <<Closing>>

Captures ==
    {Captured(p) \o q \o <<z>> :
        p \in UpTo(Repeated, 2), q \in UpTo(Repeated, 1), z \in {Back(1), EndAnchor}}
    \cup {Captured(<<x>> \o Captured(<<y>>) \o <<Position>>) \o <<z>> :
            x \in Repeated, y \in Repeated,
            z \in {Back(1), Back(2), One(B, "")}}

MCPatterns == [anchored : {FALSE}, items : Short \cup Captures]
              \cup [anchored : {TRUE}, items : UpTo(Repeated, 1)]

MCSubjects == UpTo(AB, 3)
              \cup {<<"a", "b", "a", "b">>, <<"b", "a", "a", "a">>, <<"a", "a", "b", "b">>}
=============================================================================
