------------------------------ MODULE MCTriage ------------------------------
\* Findings that share titles, change section with the severity, or are unknown.
EXTENDS Triage

F(template, matcher, severity, name, evidence) ==
    [template |-> template, matcher |-> matcher, severity |-> severity, name |-> name, evidence |-> evidence]

MCFindings ==
    { F("fastly-debug-headers", "", Info, "Fastly debug", << "/a" >>),
      F("x-debug-headers", "", Low, "X-Debug", << "/b" >>),
      F("http-missing-security-headers", "x-frame-options", Info, "HTTP Missing Security Headers", << "/a" >>),
      F("waf-detect", "", Info, "WAF Detection", << "/a" >>),
      F("dns-waf-detect", "", Info, "DNS WAF Detection", << >>),
      F("tls-version", "tls10", Medium, "TLS Version", << "tls10" >>),
      F("tls-version", "tls13", Info, "TLS Version", << "tls13" >>),
      F("unlisted-rule-a", "", Medium, "Outdated library", << "/a" >>),
      F("unlisted-rule-b", "", Critical, "Outdated library", << "/a", "/b" >>) }

MCTitles ==
    << "CDN debug headers exposed in responses", "Obsolete TLS version accepted", "Outdated library",
       "TLS protocol versions", "Web application firewall", "x-frame-options" >>
=============================================================================
