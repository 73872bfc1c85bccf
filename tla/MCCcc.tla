-------------------------------- MODULE MCCcc --------------------------------
EXTENDS CccBus

w(c, to, d, stop) ==
    [kind |-> "write", code |-> c, db |-> "none", to |-> to, data |-> d, bad |-> "none", stop |-> stop]
r(c, to, n, stop) ==
    [kind |-> "read", code |-> c, db |-> "none", to |-> to, n |-> n, bad |-> "none", stop |-> stop]
entdaa(addrs, te3, te4) ==
    [kind |-> "entdaa", code |-> "ENTDAA", db |-> "none", bad |-> "none", addrs |-> addrs,
     te3 |-> te3, te4 |-> te4]
With(op, b) == [op EXCEPT !.db = b]
Bad(op, b) == [op EXCEPT !.bad = b]

MCCmds ==
    { w("SETDASA", <<"ms">>, <<"c">>, TRUE),
      w("SETDASA", <<"vs">>, <<"pad">>, TRUE),
      w("SETNEWDA", <<"main">>, <<"c">>, FALSE),
      w("SETNEWDA", <<"virt">>, <<"e">>, TRUE),
      w("RSTDAA", <<>>, <<>>, TRUE),
      w("RSTDAA", <<>>, <<>>, FALSE),
      w("SETAASA", <<>>, <<>>, TRUE),
      w("dSETMWL", <<"virt">>, <<"1", "2">>, FALSE),
      w("dSETMRL", <<"main", "other">>, <<"1", "2", "3">>, TRUE),
      w("SETMRL", <<>>, <<"4", "5">>, TRUE),
      w("dSETMRL", <<"virt">>, <<"4", "5">>, FALSE),
      Bad(w("dSETMRL", <<"main", "virt">>, <<"6", "7", "8">>, TRUE), "data"),
      w("DISEC", <<>>, <<"ibi">>, FALSE),
      With(w("dENEC", <<"virt">>, <<"ibi">>, TRUE), "00"),
      With(w("dRSTACT", <<"main">>, <<>>, FALSE), "02"),
      With(w("dRSTACT", <<"virt">>, <<>>, FALSE), "04"),
      With(w("dRSTACT", <<"other">>, <<>>, FALSE), "02"),
      With(w("RSTACT", <<>>, <<>>, TRUE), "01"),
      With(w("RSTACT", <<>>, <<>>, FALSE), "01"),
      [With(w("RSTACT", <<>>, <<>>, TRUE), "00") EXCEPT !.bad = "db", !.kind = "te2"],
      [kind |-> "te0", code |-> "none", db |-> "none", bad |-> "none"],
      [kind |-> "te1", code |-> "dENEC", db |-> "none", bad |-> "code"],
      [kind |-> "te1", code |-> "ENTHDR", db |-> "none", bad |-> "none"],
      r("GETSTATUS", <<"main">>, 2, TRUE),
      r("GETSTATUS", <<"virt">>, 1, TRUE),
      r("GETMRL", <<"virt", "main">>, 3, FALSE),
      r("GETMWL", <<"main">>, 2, TRUE),
      With(r("GETCAPS", <<"main">>, 3, FALSE), "93"),
      r("GETCAPS", <<"virt">>, 3, FALSE),
      With(r("dRSTACT", <<"virt">>, 1, TRUE), "04"),
      r("GETPID", <<"main">>, 6, TRUE),
      r("SETNEWDA", <<"main">>, 1, TRUE),
      entdaa(<<"d", "e", "f">>, FALSE, FALSE),
      entdaa(<<"d", "e">>, TRUE, FALSE),
      entdaa(<<"d">>, FALSE, FALSE),
      entdaa(<<"d">>, FALSE, TRUE),
      [kind |-> "reset"] }

=============================================================================
