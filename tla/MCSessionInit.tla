--------------------------- MODULE MCSessionInit ---------------------------
(* TLC instance of SessionInit: small models, and the device strings of the *)
(* README with their variants.                                              *)
EXTENDS SessionInit

MCModels == {[dims |-> 4, h |-> 4, w |-> 4], [dims |-> 5, h |-> 4, w |-> 32]}

GPU(id) == <<"GPU", id>>
CPU == <<"CPU", "">>
Plain(d) == [virtual |-> "", list |-> <<d>>, bracket |-> 0]
Virtual(v, list, bracket) == [virtual |-> v, list |-> list, bracket |-> bracket]

MCTargets ==
  {Plain(CPU), Plain(GPU(".1")),
   Virtual("MULTI", <<GPU(".0"), GPU(".1")>>, 0), Virtual("MULTI", <<GPU(""), GPU(".1")>>, 0),
   Virtual("MULTI", <<GPU(""), CPU>>, 1), Virtual("AUTO", <<GPU(""), CPU>>, 0),
   Virtual("HETERO", <<GPU(".0"), CPU>>, 0)}

MCReshapes == {<<1, 4, 64>>, <<1, 4, 48>>, <<1, 3, 64>>, <<1, Junk, 4, 8>>, <<1, Junk, 4>>}
MCResolutions == {<<8, 6>>, <<0, 6>>, <<8>>}
=============================================================================
