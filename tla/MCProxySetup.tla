---------------------------- MODULE MCProxySetup ----------------------------
(* TLC instance of the proxy's configuration.                              *)
EXTENDS ProxySetup

MCNames == {<<"MAILER">>, <<"mailer">>, <<"MAILER", "SECRET">>, <<"MAILER", "TRANSPORT">>,
            <<"MIKI">>, <<"SECRET">>, <<"", "SECRET">>, <<"">>}

Low(part) == CASE part = "MAILER" -> "mailer" [] part = "MIKI" -> "miki"
               [] part = "SECRET" -> "secret" [] part = "TRANSPORT" -> "transport"
               [] OTHER -> part
MCLower == [n \in MCNames |-> [i \in 1..Len(n) |-> Low(n[i])]]

Value(h, p, t, s) == [addr |-> [host |-> h, port |-> p], transport |-> t, secret |-> s]

\* Good values, a port at each side of its limits, and one bad in every role.
MCValues == {Value("h", NoPort, "json", "hex"), Value("g", MaxPort, "", ""),
             Value("h", 0, "legacy", "hex"), Value("", 1, "http", "junk")}

MCEntries == {<<"">>, <<"miki", "*">>, <<"miki", "Get">>, <<"mailer", "Send">>,
              <<"miki", "A", "B">>}

MCMethods == {<<"miki", "Get">>, <<"miki", "A", "B">>, <<"miki", "">>, <<"miki">>,
              <<"miki", "", "">>, <<"mailer", "Send">>, <<"", "Get">>, <<"">>}
=============================================================================
