------------------------- MODULE MCModuleBoundaries -------------------------
(***************************************************************************)
(* The four roots of the repository, one file of each layer, and the edits *)
(* its rules are about.                                                    *)
(***************************************************************************)
EXTENDS ModuleBoundaries

Web == "apps/web"
Api == "apps/api"
ClientPackage == "packages/api-client"
ContractPackage == "packages/api-contract"
Mobile == "apps/mobile"

Code(r, p) == [root |-> r, path |-> p, code |-> TRUE]
Data(r, p) == [root |-> r, path |-> p, code |-> FALSE]
ByPath(f)    == [kind |-> "path", file |-> f]
ByName(n, s) == [kind |-> "name", name |-> n, subpath |-> s]
Import(f, s) == [from |-> f, spec |-> s]

Feature    == Code(Web, <<"src", "features", "page">>)
Port       == Code(Web, <<"src", "repositories", "port">>)
Adapter    == Code(Web, <<"src", "adapters", "http">>)
Main       == Code(Web, <<"src", "main">>)
Built      == Code(Web, <<"dist", "bundle">>)
Stray      == Code(Web, <<"notes">>)
Index      == Code(ClientPackage, <<"src", "index">>)
Operations == Code(ClientPackage, <<"generated", "client">>)
Schema     == Code(ContractPackage, <<"generated", "schema">>)
OpenApi    == Data(ContractPackage, <<"generated", "openapi.json">>)

Names == [web |-> "@trax-os/web", client |-> "@trax-os/api-client",
          contract |-> "@trax-os/api-contract"]
InternalNames == {Names.web, Names.client, Names.contract, "@trax-os/ui"}

Trax == <<"trax_api">>
Py(m) == <<"trax_api", m>>

StartTree ==
    [active |-> {[path |-> Api, ecosystem |-> "python",
                  packageName |-> "trax-os-api", kind |-> "application"],
                 [path |-> Web, ecosystem |-> "npm",
                  packageName |-> Names.web, kind |-> "application"],
                 [path |-> ClientPackage, ecosystem |-> "npm",
                  packageName |-> Names.client, kind |-> "runtime-client"],
                 [path |-> ContractPackage, ecosystem |-> "npm",
                  packageName |-> Names.contract,
                  kind |-> "generated-projection"]},
     reserved |-> {Mobile},
     exports |-> {<<ClientPackage, ".">>, <<ContractPackage, ".">>, <<ContractPackage, "./openapi.json">>},
     edges |-> {<<Web, ClientPackage>>, <<ClientPackage, ContractPackage>>},
     rules |-> {[root |-> Web, prefix |-> <<"src", "features">>, layer |-> "feature"],
                [root |-> Web, prefix |-> <<"src", "repositories">>,
                 layer |-> "repository"],
                [root |-> Web, prefix |-> <<"src", "adapters">>, layer |-> "adapter"],
                [root |-> Web, prefix |-> <<"src">>, layer |-> "application"],
                [root |-> ClientPackage, prefix |-> <<"generated">>, layer |-> "generated"],
                [root |-> ClientPackage, prefix |-> <<"src">>, layer |-> "client-runtime"],
                [root |-> ContractPackage, prefix |-> <<"generated">>, layer |-> "generated"]},
     forbidden |-> {<<"feature", "adapter">>, <<"repository", "adapter">>}
                   \cup ({"generated"} \X {"application", "feature", "repository",
                                           "adapter", "client-runtime"})
                   \cup ({"client-runtime"} \X {"application", "feature",
                                                "repository", "adapter"}),
     inventory |-> {[kind |-> "generated-projection", root |-> ContractPackage,
                     files |-> {Schema.path, OpenApi.path}],
                    [kind |-> "runtime-client", root |-> ClientPackage,
                     files |-> {Index.path, Operations.path}]},
     pymodules |-> {<<Trax, "foundation">>, <<Py("schema"), "persistence">>,
                    <<Py("auth"), "application">>, <<Py("routes"), "transport">>},
     pyallowed |-> {<<"persistence", "foundation">>, <<"application", "application">>,
                    <<"application", "persistence">>, <<"application", "foundation">>,
                    <<"transport", "transport">>, <<"transport", "application">>,
                    <<"transport", "persistence">>, <<"transport", "foundation">>},
     exceptions |-> {},
     manifests |-> {[path |-> Api, ecosystem |-> "python", name |-> "trax-os-api"],
                    [path |-> Web, ecosystem |-> "npm", name |-> Names.web],
                    [path |-> ClientPackage, ecosystem |-> "npm", name |-> Names.client],
                    [path |-> ContractPackage, ecosystem |-> "npm", name |-> Names.contract]},
     targets |-> {[root |-> ClientPackage, subpath |-> ".", file |-> Index],
                  [root |-> ContractPackage, subpath |-> ".", file |-> Schema],
                  [root |-> ContractPackage, subpath |-> "./openapi.json", file |-> OpenApi]},
     deps |-> {<<Web, Names.client>>, <<ClientPackage, Names.contract>>, <<Web, "react">>},
     workspaces |-> {Web, ClientPackage, ContractPackage},
     owners |-> {"* @owner"},
     files |-> {Feature, Port, Adapter, Main, Built, Index, Operations, Schema,
                OpenApi},
     imports |-> {Import(Main, ByPath(Adapter)), Import(Feature, ByPath(Port)),
                  Import(Adapter, ByName(Names.client, ".")),
                  Import(Index, ByPath(Operations)),
                  Import(Index, ByName(Names.contract, ".")),
                  Import(Main, ByName("react", "."))},
     aliases |-> {},
     pyfiles |-> {Trax, Py("schema"), Py("auth"), Py("routes")},
     pyedges |-> {[source |-> Py("routes"), target |-> Py("auth"),
                   names |-> {"login"}, dynamic |-> FALSE],
                  [source |-> Py("auth"), target |-> Py("schema"),
                   names |-> {"users"}, dynamic |-> FALSE]}]

Alias(s, f) == [root |-> Web, spec |-> s, file |-> f]

TreeEdits ==
    [edges |-> {<<ContractPackage, Web>>, <<Web, ContractPackage>>, <<ContractPackage, ClientPackage>>},
     exports |-> {<<ContractPackage, ".">>, <<Web, "./adapters">>},
     deps |-> {<<ContractPackage, Names.web>>, <<ContractPackage, Names.client>>,
               <<Web, Names.contract>>, <<Web, Names.client>>},
     targets |-> {[root |-> Web, subpath |-> ".", file |-> Main],
                  [root |-> Web, subpath |-> "./adapters", file |-> Adapter]},
     manifests |-> {[path |-> Mobile, ecosystem |-> "npm", name |-> "@trax-os/ui"]},
     workspaces |-> {Mobile},
     owners |-> {"apps/ @other"},
     files |-> {Stray, Code(ClientPackage, <<"src", "extra">>)},
     imports |-> {Import(Feature, ByPath(Adapter)),
                  Import(Feature, ByName("~", ".")),
                  Import(Feature, ByName(Names.web, "./adapters")),
                  Import(Feature, ByPath(Built)),
                  Import(Main, [kind |-> "loader"]),
                  Import(Main, ByPath(Index)),
                  Import(Schema, ByName(Names.client, ".")),
                  Import(Operations, ByName(Names.client, "."))},
     aliases |-> {Alias(ByName("~", "."), Adapter), Alias(ByName("~", "."), Port),
                  Alias(ByName(Names.client, "."), Operations)}]

PythonEdits ==
    [pymodules |-> {<<Py("settings"), "transport">>, <<Py("auth"), "application">>,
                    <<Py("auth"), "transport">>},
     pyfiles |-> {Py("settings"), Py("auth")},
     pyallowed |-> {<<"application", "transport">>},
     exceptions |-> {[from |-> Py("auth"), to |-> Py("routes"), names |-> {"login"}],
                     [from |-> Py("auth"), to |-> Py("settings"), names |-> {"limit"}]},
     pyedges |-> {[source |-> Py("auth"), target |-> Py("routes"),
                   names |-> {"login"}, dynamic |-> FALSE],
                  [source |-> Py("auth"), target |-> Py("routes"),
                   names |-> {"login"}, dynamic |-> TRUE],
                  [source |-> Py("auth"), target |-> Py("routes"),
                   names |-> {"logout"}, dynamic |-> FALSE],
                  [source |-> Py("auth"), target |-> Py("settings"),
                   names |-> {"limit"}, dynamic |-> FALSE],
                  [source |-> Py("auth"), target |-> <<"trax_api", "schema", "users">>,
                   names |-> {"users"}, dynamic |-> TRUE]},
     reserved |-> {Web}]

MCEditable == {[edits |-> TreeEdits, max |-> 4], [edits |-> PythonEdits, max |-> 14]}
============================================================================
