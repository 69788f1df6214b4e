-------------------------- MODULE MCParserFrontEnd --------------------------
(* Small instances of ParserFrontEnd for TLC.                              *)
EXTENDS ParserFrontEnd

CONSTANTS full,     (* lists both modules                                   *)
          empty,    (* lists nothing                                        *)
          broken,   (* is not JSON                                          *)
          odd,      (* lists a module and something that is no text         *)
          registrar, plugin, a1, a2

MCPluginList ==
  [c \in Configs |-> CASE c = full -> <<plugin, registrar>>
                       [] c = odd  -> <<plugin, NoText>>
                       [] OTHER    -> <<>>]
MCInstances == {<<a1, 1>>, <<a1, 2>>, <<a2, 1>>}
MCManagerCodes == {NoInterface}
=============================================================================
