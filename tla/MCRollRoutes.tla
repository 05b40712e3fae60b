----------------------------- MODULE MCRollRoutes -----------------------------
(* Two rolls of fabric and a band; one recipe of two materials, one of one. *)
EXTENDS RollRoutes, TLC

CONSTANTS fabric, cloth, band, resin, ink

MCKind == (fabric :> "ROLLO_TELA") @@ (cloth :> "ROLLO_TELA") @@ (band :> "BANDA")
MCSheet ==
    (fabric :> {<<"TELARES", "LAMINADO", "CORTE">>, <<"TELARES", "LONAS">>}) @@
    (cloth :> {<<"TELARES", "LAMINADO">>, <<"TELARES", "CORTE", "CONFECCION">>}) @@
    (band :> {<<"TELARES", "CORTE">>, <<"TELARES", "GLOBO">>})
MCSpoken == {"LAMINADO", "CORTE", "CONFECCION", "LONAS"}
MCSpecs == {"tinted", "plain"}
MCRecipe ==
    ("tinted" :> (resin :> 1 @@ ink :> 1)) @@ ("plain" :> (resin :> 2 @@ ink :> 0))
MCFits == {<<"tinted", fabric>>, <<"tinted", cloth>>, <<"plain", cloth>>}
=============================================================================
