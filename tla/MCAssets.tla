------------------------------ MODULE MCAssets ------------------------------
(* One asset of each type; the map comes last, as in game_init.            *)
EXTENDS Assets

OneOfEach == <<"Image", "Shader", "Audio", "Map">>
AudioMap == <<3, 4>>
ShaderImage == <<2, 1>>
=============================================================================
