------------------------------ MODULE MCStartup ------------------------------
(* Instances of Startup for TLC. *)
EXTENDS Startup

\* A deployment that is complete, and those that differ from it in one or two settings.
Complete == [s \in Settings |-> IF s \in {"CLOUDMAILIN_SMTP_URL", "REDIS_TLS_URL", "REDIS_URL"} THEN "" ELSE "good"]

FewEnvironments ==
    {[Complete EXCEPT !["SCANNER_INTERVAL"] = v] : v \in {"good", "zero", "bad"}}
        \cup {[Complete EXCEPT !["API_KEY"] = ""], [Complete EXCEPT !["REDIS_URL"] = "bad"],
              [Complete EXCEPT !["CLOUDMAILIN_SMTP_URL"] = "bad"],
              [Complete EXCEPT !["CLOUDMAILIN_SMTP_URL"] = "good", !["SMTP_HOST"] = ""],
              [Complete EXCEPT !["REDIS_TLS_URL"] = "good", !["REDIS_URL"] = "bad"]}
=============================================================================
