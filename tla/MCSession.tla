----------------------------- MODULE MCSession -----------------------------
EXTENDS Session

CONSTANTS a, b

A(x, m) == [of |-> x, mode |-> m]
Evm  == {A(a, "delegation"), A(b, "delegation")}
Tp   == {A(a, "impersonation"), A(b, "shimmer")}
Both == {A(a, "delegation"), A(a, "impersonation")}
Tps  == {A(a, "impersonation"), A(b, "impersonation")}
MCAccount == Evm \union Tp \union Tps

Nobody == [x \in {a, b} |-> {}]
OneKey(x) == {[key |-> [of |-> x, n |-> 0], mm |-> TRUE, tp |-> FALSE]}
Registered1 == [x \in {a, b} |-> IF x = a THEN OneKey(a) ELSE {}]
Registered2 == [Registered1 EXCEPT ![a] = {[r EXCEPT !.tp = TRUE] : r \in @}]

B(accs, reg, pub, nm, fu, ch, ca, fo, wo, fa) ==
    [accounts |-> accs, registered |-> reg, published |-> pub, named |-> nm, funded |-> fu,
     changes |-> ch, calls |-> ca, foreigns |-> fo, works |-> wo, fails |-> fa]
MCBounds ==
    {B(Evm, Registered1, {}, {a}, {}, 1, 1, 0, 0, 1),
     B(Evm, Nobody, {}, {a, b}, {}, 0, 1, 0, 1, 1),
     B({A(a, "delegation")}, Registered1, {}, {}, {}, 0, 2, 2, 0, 1),
     B(Tp, Nobody, {}, {}, {a, b}, 2, 0, 0, 0, 0),
     B(Tp, Nobody, {}, {}, {}, 1, 1, 1, 0, 1),
     B({A(b, "shimmer")}, Nobody, {}, {}, {}, 0, 0, 1, 2, 1),
     B(Both, Registered1, {}, {a}, {a}, 1, 1, 0, 0, 0),
     B(Tps, Nobody, {}, {}, {a, b}, 2, 0, 0, 0, 0),
     B(Evm, Nobody, {}, {}, {}, 1, 3, 0, 0, 0),
     B(Tp, Registered2, {}, {a, b}, {a, b}, 1, 2, 0, 0, 0)}
=============================================================================
