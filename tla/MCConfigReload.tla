-------------------------- MODULE MCConfigReload ---------------------------
(* Small instances of ConfigReload for TLC. *)
EXTENDS ConfigReload

(* A full file, one that sets two fields, one that loads and is not valid, *)
(* and one that cannot be parsed.                                          *)
FullDoc  == [field \in DOMAIN Default \ OptionFields |->
                CASE field = "name" -> "full" [] field = "graceful" -> 3
                  [] field = "hot_reload" -> TRUE [] OTHER -> Default[field]]
PartDoc  == [name |-> "part", hot_reload |-> TRUE]
WrongDoc == [graceful |-> 4]

MCDocuments    == {FullDoc, PartDoc, WrongDoc, Malformed}
MCEnvironments == {<<>>, [name |-> "env"]}
MCSettings     == {<<"hot_reload", TRUE>>, <<"force", 2>>, <<"work_dir", {"relative"}>>,
                   <<"work_dir", {"missing"}>>}

=============================================================================
